---- MODULE Spec2Model ----
(***************************************************************************)
(* Company financial API: the CSV importer (scripts/import_data.py), the   *)
(* record store (app/models.py) and the query service (app/routers/*.py).  *)
(*                                                                         *)
(* Text is a sequence of one-character strings, so that strip, replace,    *)
(* lower-casing and LIKE matching are computed character by character.     *)
(* A nullable text is either a text or NULL; an optional integer is <<>>   *)
(* or <<n>>.                                                               *)
(***************************************************************************)
EXTENDS Integers, Sequences, FiniteSets, TLC

VARIABLES
    source,                \* the CompanyData directory tree read by the importer
    companies,             \* table companies, in insertion (rowid) order
    balance_sheets,        \* table balance_sheets
    cash_flow_statements,  \* table cash_flow_statements
    income_statements,     \* table income_statements
    industries,            \* table industries
    operations,            \* table operations
    people,                \* table people
    pc,                    \* position of main() of the importer
    valid_duns,            \* the set import_company_info returned in this run
    runs,                  \* number of import runs started
    imported_info,         \* the company_info directories read by the runs so far, in order
    resp                   \* the last response of the query service

tables == <<companies, balance_sheets, cash_flow_statements, income_statements,
            industries, operations, people>>
dependents == <<balance_sheets, cash_flow_statements, income_statements,
                industries, operations, people>>
vars == <<source, tables, pc, valid_duns, runs, imported_info, resp>>

----------------------------------------------------------------------------
(* Values *)

\* SQL NULL / Python None for a text column or an optional text parameter.
NULL == <<"NULL">>
\* A CSV column that the header of the file does not have (row.get default).
MISSING == <<"MISSING">>
\* Optional integers and floats.
NoVal == <<>>
Val(x) == <<x>>

RECURSIVE SeqFilterChars(_, _)
\* str.replace(c, '') for every c in drop / re.sub('[drop]', '', s)
SeqFilterChars(s, drop) ==
    IF s = <<>> THEN <<>>
    ELSE IF Head(s) \in drop THEN SeqFilterChars(Tail(s), drop)
         ELSE <<Head(s)>> \o SeqFilterChars(Tail(s), drop)

RECURSIVE LStrip(_, _)
LStrip(s, cs) ==
    IF s # <<>> /\ Head(s) \in cs THEN LStrip(Tail(s), cs) ELSE s

RECURSIVE RStrip(_, _)
RStrip(s, cs) ==
    IF s # <<>> /\ s[Len(s)] \in cs THEN RStrip(SubSeq(s, 1, Len(s) - 1), cs) ELSE s

\* str.strip(chars): every leading and trailing character of cs is removed.
StripChars(s, cs) == RStrip(LStrip(s, cs), cs)

\* The whitespace characters of the model's alphabet.
Whitespace == {" ", "\t"}

\* str.strip(): whitespace.
Strip(s) == StripChars(s, Whitespace)

\* SQL lower() on the ASCII letters of the model's alphabet.
LowerChar(c) ==
    CASE c = "A" -> "a"
      [] c = "B" -> "b"
      [] c = "C" -> "c"
      [] c = "D" -> "d"
      [] OTHER -> c

Lower(s) == [i \in 1..Len(s) |-> LowerChar(s[i])]

\* Code point of a character (BINARY collation of ORDER BY on a text column).
Code(c) ==
    CASE c = " " -> 32
      [] c = "%" -> 37
      [] c = "A" -> 65
      [] c = "B" -> 66
      [] c = "C" -> 67
      [] c = "D" -> 68
      [] c = "_" -> 95
      [] c = "a" -> 97
      [] c = "b" -> 98
      [] c = "c" -> 99
      [] c = "d" -> 100
      [] OTHER -> 120

RECURSIVE TextLeq(_, _)
\* s <= t in the byte order of the characters.
TextLeq(s, t) ==
    IF s = <<>> THEN TRUE
    ELSE IF t = <<>> THEN FALSE
    ELSE IF Code(Head(s)) < Code(Head(t)) THEN TRUE
    ELSE IF Code(Head(s)) > Code(Head(t)) THEN FALSE
    ELSE TextLeq(Tail(s), Tail(t))

RECURSIVE LikeMatch(_, _)
\* SQL LIKE: '%' matches any run of characters, '_' any one character.
LikeMatch(pat, s) ==
    IF pat = <<>> THEN s = <<>>
    ELSE IF Head(pat) = "%"
         THEN \E k \in 0..Len(s) : LikeMatch(Tail(pat), SubSeq(s, k + 1, Len(s)))
    ELSE IF s = <<>> THEN FALSE
    ELSE IF Head(pat) = "_" \/ Head(pat) = Head(s)
         THEN LikeMatch(Tail(pat), Tail(s))
    ELSE FALSE

\* column.ilike(f"%{x}%"): lower(column) LIKE lower('%x%'); NULL never matches.
ILikeContains(column, x) ==
    /\ column # NULL
    /\ LikeMatch(Lower(<<"%">> \o x \o <<"%">>), Lower(column))

\* Python truthiness of an optional text parameter: neither None nor ''.
Truthy(x) == x # NULL /\ x # <<>>

\* Python truthiness of an optional integer parameter: neither None nor 0.
TruthyInt(y) == y # NoVal /\ y[1] # 0

----------------------------------------------------------------------------
(* Python int() and float() on the characters of the model's alphabet *)

Digits == {"0", "1", "2", "3", "4", "5", "6", "7", "8", "9"}

DigitVal(c) ==
    CASE c = "0" -> 0 [] c = "1" -> 1 [] c = "2" -> 2 [] c = "3" -> 3
      [] c = "4" -> 4 [] c = "5" -> 5 [] c = "6" -> 6 [] c = "7" -> 7
      [] c = "8" -> 8 [] OTHER -> 9

RECURSIVE DigitsVal(_, _)
\* Value of a run of digits, most significant first (acc is the value so far).
DigitsVal(s, acc) ==
    IF s = <<>> THEN acc ELSE DigitsVal(Tail(s), 10 * acc + DigitVal(Head(s)))

AllDigits(s) == \A i \in 1..Len(s) : s[i] \in Digits

\* The sign of a numeric literal and the text after it.
Unsigned(s) == IF s # <<>> /\ Head(s) \in {"+", "-"} THEN Tail(s) ELSE s
IsNegSign(s) == s # <<>> /\ Head(s) = "-"

\* int(cell): surrounding whitespace and one sign allowed, then digits only.
\* NoVal stands for ValueError (a text that is no integer literal).
PyInt(s) ==
    LET t == Strip(s)
        u == Unsigned(t)
    IN  IF u # <<>> /\ AllDigits(u)
        THEN Val(IF IsNegSign(t) THEN 0 - DigitsVal(u, 0) ELSE DigitsVal(u, 0))
        ELSE NoVal

RECURSIVE Dec(_, _)
\* The decimal number num / 10^exp with trailing zeros of the fraction removed.
Dec(num, exp) ==
    IF exp > 0 /\ num % 10 = 0 THEN Dec(num \div 10, exp - 1)
    ELSE [num |-> num, exp |-> exp]

\* Index of the first "." of s, or 0.
DotAt(s) ==
    IF \E i \in 1..Len(s) : s[i] = "."
    THEN CHOOSE i \in 1..Len(s) : s[i] = "." /\ \A j \in 1..(i - 1) : s[j] # "."
    ELSE 0

\* float(text): surrounding whitespace and one sign allowed, then digits with at
\* most one decimal point and at least one digit.  NoVal stands for ValueError.
\* (exponents, inf, nan and digit-group underscores need characters the model's
\* alphabet does not have.)
PyFloat(s) ==
    LET t == Strip(s)
        u == Unsigned(t)
        d == DotAt(u)
        ip == IF d = 0 THEN u ELSE SubSeq(u, 1, d - 1)
        fp == IF d = 0 THEN <<>> ELSE SubSeq(u, d + 1, Len(u))
        mag == DigitsVal(ip \o fp, 0)
    IN  IF AllDigits(ip) /\ AllDigits(fp) /\ Len(ip) + Len(fp) >= 1
        THEN Val(Dec(IF IsNegSign(t) THEN 0 - mag ELSE mag, Len(fp)))
        ELSE NoVal

\* -x on an optional decimal.
Negate(v) == IF v = NoVal THEN NoVal ELSE Val(Dec(0 - v[1].num, v[1].exp))

Contains(s, c) == \E i \in 1..Len(s) : s[i] = c

\* parse_numeric_value without the sign of a value in parentheses.
parse_numeric_value_unsigned(value_str) ==
    IF value_str = NULL \/ value_str = <<>> \/ value_str = <<"-">>
       \/ Strip(value_str) = <<>>
    THEN NoVal
    ELSE LET v == StripChars(StripChars(Strip(value_str), {"\""}), {"'"})
         IN  IF v = <<>> \/ v = <<"-">> THEN NoVal
             ELSE IF Contains(v, "%")
                  THEN PyFloat(Strip(SeqFilterChars(SeqFilterChars(v, {"%"}), {","})))
             ELSE LET cleaned == Strip(SeqFilterChars(v, {"$", ",", "(", ")", "\""}))
                  IN  IF cleaned = <<>> \/ cleaned = <<"-">> THEN NoVal
                      ELSE PyFloat(cleaned)

\* parse_numeric_value that takes a value for negative when it starts with "("
\* and ends with ")".
parse_numeric_value_enclosed(value_str) ==
    IF value_str = NULL \/ value_str = <<>> \/ value_str = <<"-">>
       \/ Strip(value_str) = <<>>
    THEN NoVal
    ELSE LET v == StripChars(StripChars(Strip(value_str), {"\""}), {"'"})
         IN  IF v = <<>> \/ v = <<"-">> THEN NoVal
             ELSE IF Contains(v, "%")
                  THEN PyFloat(Strip(SeqFilterChars(SeqFilterChars(v, {"%"}), {","})))
             ELSE LET is_negative == v[1] = "(" /\ v[Len(v)] = ")"
                      cleaned == Strip(SeqFilterChars(v, {"$", ",", "(", ")", "\""}))
                  IN  IF cleaned = <<>> \/ cleaned = <<"-">> THEN NoVal
                      ELSE IF is_negative THEN Negate(PyFloat(cleaned))
                      ELSE PyFloat(cleaned)

\* x / 100 on an optional decimal.
Hundredth(v) == IF v = NoVal THEN NoVal ELSE Val(Dec(v[1].num, v[1].exp + 2))

\* parse_numeric_value that returns a percentage as a fraction.
parse_numeric_value_fraction(value_str) ==
    IF value_str = NULL \/ value_str = <<>> \/ value_str = <<"-">>
       \/ Strip(value_str) = <<>>
    THEN NoVal
    ELSE LET v == StripChars(StripChars(Strip(value_str), {"\""}), {"'"})
         IN  IF v = <<>> \/ v = <<"-">> THEN NoVal
             ELSE IF Contains(v, "%")
                  THEN Hundredth(PyFloat(Strip(SeqFilterChars(SeqFilterChars(v, {"%"}),
                                                              {","}))))
             ELSE LET is_negative == Contains(v, "(") /\ Contains(v, ")")
                      cleaned == Strip(SeqFilterChars(v, {"$", ",", "(", ")", "\""}))
                  IN  IF cleaned = <<>> \/ cleaned = <<"-">> THEN NoVal
                      ELSE IF is_negative THEN Negate(PyFloat(cleaned))
                      ELSE PyFloat(cleaned)

\* s without one character of cs at its start and one at its end.
StripOne(s, cs) ==
    LET a == IF s # <<>> /\ s[1] \in cs THEN 2 ELSE 1
        b == IF Len(s) >= a /\ s[Len(s)] \in cs THEN Len(s) - 1 ELSE Len(s)
    IN  SubSeq(s, a, b)

\* parse_numeric_value that takes one quote character from each end.
parse_numeric_value_single_layer(value_str) ==
    IF value_str = NULL \/ value_str = <<>> \/ value_str = <<"-">>
       \/ Strip(value_str) = <<>>
    THEN NoVal
    ELSE LET v == StripOne(Strip(value_str), {"\"", "'"})
         IN  IF v = <<>> \/ v = <<"-">> THEN NoVal
             ELSE IF Contains(v, "%")
                  THEN PyFloat(Strip(SeqFilterChars(SeqFilterChars(v, {"%"}), {","})))
             ELSE LET is_negative == Contains(v, "(") /\ Contains(v, ")")
                      cleaned == Strip(SeqFilterChars(v, {"$", ",", "(", ")", "\""}))
                  IN  IF cleaned = <<>> \/ cleaned = <<"-">> THEN NoVal
                      ELSE IF is_negative THEN Negate(PyFloat(cleaned))
                      ELSE PyFloat(cleaned)

\* parse_numeric_value: the optional float of a currency / percentage text.
parse_numeric_value(value_str) ==
    IF value_str = NULL \/ value_str = <<>> \/ value_str = <<"-">>
       \/ Strip(value_str) = <<>>
    THEN NoVal
    ELSE LET v == StripChars(StripChars(Strip(value_str), {"\""}), {"'"})
         IN  IF v = <<>> \/ v = <<"-">> THEN NoVal
             ELSE IF Contains(v, "%")
                  THEN PyFloat(Strip(SeqFilterChars(SeqFilterChars(v, {"%"}), {","})))
             ELSE LET is_negative == Contains(v, "(") /\ Contains(v, ")")
                      cleaned == Strip(SeqFilterChars(v, {"$", ",", "(", ")", "\""}))
                  IN  IF cleaned = <<>> \/ cleaned = <<"-">> THEN NoVal
                      ELSE IF is_negative THEN Negate(PyFloat(cleaned))
                      ELSE PyFloat(cleaned)

----------------------------------------------------------------------------
(* The CompanyData directory tree: sample files and bounds *)

\* Import runs of one behaviour.
MaxRuns == 2
\* Dependent files (all six directories together) of a source tree.
MaxFiles == 1

\* File stems (business keys) that occur in the source tree.
Stems == {"d1", "d2"}

DepDirs == {"balance_sheet", "cash_flow_statement", "income_statement",
            "industries", "operations", "people"}

Ab == <<"A", "b">>
Ca == <<"C", "a">>
Db == <<"D", "b">>

InfoRow(f, v) == [field |-> f, value |-> v]
FinRow(l, y, v) == [line_item |-> l, year |-> y, value |-> v]
IndRow(c, d, p) == [industry_code |-> c, industry_description |-> d, is_primary |-> p]
OpRow(n, v) == [field_name |-> n, field_value |-> v]
PersonRow(n, t, r) == [person_name |-> n, title |-> t, responsibilities |-> r]

\* company_info/<stem>.csv, header field,value
InfoFile ==
    << InfoRow("Physical Address", Ab), InfoRow("Company Type", <<" ", "C", "a">>) >>
InfoFileRewritten ==
    << InfoRow("Company Type", Db), InfoRow("Primary SIC", <<"a", "b">>),
       InfoRow("ACN", <<"1">>), InfoRow("Telephone Number", <<>>),
       InfoRow("Other", Ca) >>
CompanyInfoFiles == {InfoFile, InfoFileRewritten}

\* balance_sheet|cash_flow_statement|income_statement/<stem>.csv, header
\* line_item,year,value: among the rows are one whose year is no integer and a
\* short one (csv.DictReader gives None for the cells a row lacks).
FinFile ==
    << FinRow(Db, <<"2", "4">>, <<"-">>),
       FinRow(Ca, <<"2", "4">>, <<"(", "5", ")">>),
       FinRow(Ca, <<"x">>, <<"7">>),
       FinRow(Ab, NULL, NULL),
       FinRow(Db, <<"0">>, <<"1", ".", "5", "%">>) >>
\* A statement file whose header has no year column: line_item,value.
FinFileNoYear == << FinRow(Ab, MISSING, <<"5">>) >>
\* The sample has the file without year column as an income statement only.
FinFiles == {FinFile}
IncomeFiles == {FinFile, FinFileNoYear}
\* industries/<stem>.csv, header industry_code,industry_description,is_primary
IndustryFiles ==
    { << IndRow(<<"7">>, Ab, <<"1">>), IndRow(<<"7">>, Ca, <<"x">>),
         IndRow(<<>>, Db, NULL) >> }

\* operations/<stem>.csv, header field_name,field_value
OperationFiles == { << OpRow(Ab, Ca) >> }

\* people/<stem>.csv, header person_name,title,responsibilities
PeopleFiles ==
    { << PersonRow(Ab, Ca, <<"a", ",", "b">>),
         PersonRow(Db, <<>>, <<" ", "a", ",", " ", ",", "b">>),
         PersonRow(Ca, NULL, NULL),
         PersonRow(Db, Ca, NULL),
         PersonRow(Ab, Db, NULL) >> }

FilesOf(dir) ==
    CASE dir \in {"balance_sheet", "cash_flow_statement"} -> FinFiles
      [] dir = "income_statement" -> IncomeFiles
      [] dir = "industries" -> IndustryFiles
      [] dir = "operations" -> OperationFiles
      [] OTHER -> PeopleFiles

\* A directory: a function from the stems of its files to their rows.
DirsOver(files) == UNION {[S -> files] : S \in SUBSET Stems}

\* One dependent file of the tree: <<directory, stem, rows>>.
Placements == {<<d, k, f>> : d \in DepDirs, k \in Stems, f \in UNION {FilesOf(x) : x \in DepDirs}}

RECURSIVE PlacementSets(_)
\* The sets of at most n dependent files, no two at the same path.
PlacementSets(n) ==
    IF n = 0 THEN {{}}
    ELSE LET prev == PlacementSets(n - 1)
         IN  prev \cup
             {P \cup {x} : P \in prev,
                           x \in {y \in Placements : y[3] \in FilesOf(y[1])}}

OnePerPath(P) == \A x, y \in P : (x[1] = y[1] /\ x[2] = y[2]) => x = y

DirOf(P, d) ==
    [k \in {x[2] : x \in {y \in P : y[1] = d}} |->
        (CHOOSE x \in P : x[1] = d /\ x[2] = k)[3]]

\* The company_info directories: the file of "d1" is one of the two sample
\* files, the file of "d2" is the second one.
CompanyInfoDirs ==
    {dir \in DirsOver(CompanyInfoFiles) :
        "d2" \in DOMAIN dir => dir["d2"] = InfoFileRewritten}

SourceTrees ==
    {[company_info |-> ci,
      balance_sheet |-> DirOf(P, "balance_sheet"),
      cash_flow_statement |-> DirOf(P, "cash_flow_statement"),
      income_statement |-> DirOf(P, "income_statement"),
      industries |-> DirOf(P, "industries"),
      operations |-> DirOf(P, "operations"),
      people |-> DirOf(P, "people")] :
        ci \in CompanyInfoDirs,
        P \in {Q \in PlacementSets(MaxFiles) : OnePerPath(Q)}}

\* Path.glob("*.csv"): the files of a directory in an order the file system picks.
GlobOrders(dir) ==
    {o \in [1..Cardinality(DOMAIN dir) -> DOMAIN dir] :
        \A i, j \in DOMAIN o : o[i] = o[j] => i = j}

\* row.get(column, default)
Get(row, column, default) == IF row[column] = MISSING THEN default ELSE row[column]

----------------------------------------------------------------------------
(* The importer: scripts/import_data.py *)

NoInfo(duns) ==
    [duns |-> duns, physical_address |-> NULL, telephone_number |-> NULL,
     acn |-> NULL, company_type |-> NULL, primary_sic |-> NULL]

RECURSIVE ReadCompanyInfo(_, _)
\* The rows of one company_info file folded into the dict of the company.  The
\* field cell is compared after strip(); the value cell is stored after strip().
ReadCompanyInfo(info, rows) ==
    IF rows = <<>> THEN info
    ELSE LET field == Head(rows).field
             value == Strip(Get(Head(rows), "value", <<>>))
             next ==
                CASE field = "Physical Address" -> [info EXCEPT !.physical_address = value]
                  [] field = "Telephone Number" -> [info EXCEPT !.telephone_number = value]
                  [] field = "ACN" -> [info EXCEPT !.acn = value]
                  [] field = "Company Type" -> [info EXCEPT !.company_type = value]
                  [] field = "Primary SIC" -> [info EXCEPT !.primary_sic = value]
                  [] OTHER -> info
         IN  ReadCompanyInfo(next, Tail(rows))

\* A merge that updates a row that exists and adds none.
MergeUpdateOnly(table, info) ==
    [i \in 1..Len(table) |-> IF table[i].duns = info.duns THEN info ELSE table[i]]

\* A merge that leaves a row that exists as it is.
MergeKeepFirst(table, info) ==
    IF \E i \in 1..Len(table) : table[i].duns = info.duns THEN table
    ELSE Append(table, info)

\* A merge that adds a row whether or not the key exists.
MergeAppend(table, info) == Append(table, info)

\* A merge in which the row that exists takes the attributes of info that are
\* not None and keeps the others.
MergeNonNull(table, info) ==
    IF \E i \in 1..Len(table) : table[i].duns = info.duns
    THEN [i \in 1..Len(table) |->
             IF table[i].duns = info.duns
             THEN LET Kept1(new, old) == IF new = NULL THEN old ELSE new
                  IN  [duns |-> info.duns,
                       physical_address |->
                           Kept1(info.physical_address, table[i].physical_address),
                       telephone_number |->
                           Kept1(info.telephone_number, table[i].telephone_number),
                       acn |-> Kept1(info.acn, table[i].acn),
                       company_type |-> Kept1(info.company_type, table[i].company_type),
                       primary_sic |-> Kept1(info.primary_sic, table[i].primary_sic)]
             ELSE table[i]]
    ELSE Append(table, info)

\* session.merge(Company(**info)): the row with the same primary key takes every
\* attribute of info; without such a row, info is inserted.
Merge(table, info) ==
    IF \E i \in 1..Len(table) : table[i].duns = info.duns
    THEN [i \in 1..Len(table) |-> IF table[i].duns = info.duns THEN info ELSE table[i]]
    ELSE Append(table, info)

RECURSIVE MergeAll(_, _, _)
\* for duns, info in companies.items(): session.merge(Company(**info))
MergeAll(table, order, dir) ==
    IF order = <<>> THEN table
    ELSE MergeAll(Merge(table, ReadCompanyInfo(NoInfo(Head(order)), dir[Head(order)])),
                  Tail(order), dir)

RECURSIVE FinRecordsUntilBadYear(_, _)
\* FinRecords that gives the file up at the first row whose year is no integer.
FinRecordsUntilBadYear(duns, rows) ==
    IF rows = <<>> THEN <<>>
    ELSE LET row == Head(rows)
             year == IF row.year = MISSING THEN Val(0) ELSE PyInt(row.year)
             value == Get(row, "value", <<>>)
         IN  IF year = NoVal THEN <<>>
             ELSE << [duns |-> duns,
                      line_item |-> Get(row, "line_item", <<>>),
                      year |-> year[1],
                      value |-> value,
                      numeric_value |-> parse_numeric_value(value)] >>
                  \o FinRecordsUntilBadYear(duns, Tail(rows))

RECURSIVE FinRecordsParsedOnly(_, _)
\* FinRecords with the rows left out whose value text gives no number.
FinRecordsParsedOnly(duns, rows) ==
    IF rows = <<>> THEN <<>>
    ELSE LET row == Head(rows)
             year == IF row.year = MISSING THEN Val(0) ELSE PyInt(row.year)
             value == Get(row, "value", <<>>)
         IN  IF year = NoVal \/ parse_numeric_value(value) = NoVal
             THEN FinRecordsParsedOnly(duns, Tail(rows))
             ELSE << [duns |-> duns,
                      line_item |-> Get(row, "line_item", <<>>),
                      year |-> year[1],
                      value |-> value,
                      numeric_value |-> parse_numeric_value(value)] >>
                  \o FinRecordsParsedOnly(duns, Tail(rows))

RECURSIVE FinRecords(_, _)
\* The rows of one statement file that become records: a row whose year is no
\* integer is skipped (int() raises ValueError or TypeError).
FinRecords(duns, rows) ==
    IF rows = <<>> THEN <<>>
    ELSE LET row == Head(rows)
             year == IF row.year = MISSING THEN Val(0) ELSE PyInt(row.year)
             value == Get(row, "value", <<>>)
         IN  IF year = NoVal THEN FinRecords(duns, Tail(rows))
             ELSE << [duns |-> duns,
                      line_item |-> Get(row, "line_item", <<>>),
                      year |-> year[1],
                      value |-> value,
                      numeric_value |-> parse_numeric_value(value)] >>
                  \o FinRecords(duns, Tail(rows))

\* bool(int(is_primary_val)), False when int() raises.
IsPrimary(cell) ==
    LET n == PyInt(IF cell = MISSING THEN <<"0">> ELSE cell)
    IN  n # NoVal /\ n[1] # 0

IndustryRecords(duns, rows) ==
    [i \in 1..Len(rows) |->
        [duns |-> duns,
         industry_code |-> Get(rows[i], "industry_code", <<>>),
         industry_description |-> Get(rows[i], "industry_description", <<>>),
         is_primary |-> IsPrimary(rows[i].is_primary)]]

OperationRecords(duns, rows) ==
    [i \in 1..Len(rows) |->
        [duns |-> duns,
         field_name |-> Get(rows[i], "field_name", <<>>),
         field_value |-> Get(rows[i], "field_value", <<>>)]]

PersonRecords(duns, rows) ==
    [i \in 1..Len(rows) |->
        [duns |-> duns,
         person_name |-> Get(rows[i], "person_name", <<>>),
         title |-> Get(rows[i], "title", <<>>),
         responsibilities |-> Get(rows[i], "responsibilities", <<>>)]]

RECURSIVE BatchesUnfiltered(_, _, _)
\* The records of every file, the valid_duns test left out.
BatchesUnfiltered(order, valid, per) ==
    IF order = <<>> THEN <<>>
    ELSE per[Head(order)] \o BatchesUnfiltered(Tail(order), valid, per)

RECURSIVE BatchesOfStoredKeys(_, _, _)
\* The records of the files whose stem is the key of a Company row of the
\* store, whatever the key set of the run is.
BatchesOfStoredKeys(order, valid, per) ==
    IF order = <<>> THEN <<>>
    ELSE (IF \E i \in 1..Len(companies) : companies[i].duns = Head(order)
          THEN per[Head(order)] ELSE <<>>)
         \o BatchesOfStoredKeys(Tail(order), valid, per)

RECURSIVE Batches(_, _, _)
\* for csv_file in dir.glob("*.csv"): a file whose stem is not in valid_duns is
\* skipped, the records of the others are saved in glob order.
Batches(order, valid, per) ==
    IF order = <<>> THEN <<>>
    ELSE (IF Head(order) \notin valid THEN <<>> ELSE per[Head(order)])
         \o Batches(Tail(order), valid, per)

\* A row without its surrogate id.
StripId(r) == [f \in DOMAIN r \ {"id"} |-> r[f]]

\* An insert that leaves out the records the table has already.
InsertNew(table, recs) ==
    LET new == SelectSeq(recs, LAMBDA r :
                   ~\E i \in 1..Len(table) : StripId(table[i]) = r)
    IN  table \o [i \in 1..Len(new) |-> [id |-> Len(table) + i] @@ new[i]]

\* session.bulk_save_objects + commit: rows appended, id by autoincrement.
Insert(table, recs) ==
    table \o [i \in 1..Len(recs) |-> [id |-> Len(table) + i] @@ recs[i]]

import_company_info ==
    /\ pc = "idle"
    /\ runs < MaxRuns
    /\ \E order \in GlobOrders(source.company_info) :
           companies' = MergeAll(companies, order, source.company_info)
    /\ valid_duns' = DOMAIN source.company_info
    /\ imported_info' = Append(imported_info, source.company_info)
    /\ runs' = runs + 1
    /\ pc' = "balance_sheets"
    /\ UNCHANGED <<source, dependents, resp>>

import_balance_sheets ==
    /\ pc = "balance_sheets"
    /\ \E order \in GlobOrders(source.balance_sheet) :
           balance_sheets' =
               Insert(balance_sheets,
                      Batches(order, valid_duns,
                              [k \in DOMAIN source.balance_sheet |->
                                  FinRecords(k, source.balance_sheet[k])]))
    /\ pc' = "cash_flows"
    /\ UNCHANGED <<source, companies, cash_flow_statements, income_statements,
                   industries, operations, people, valid_duns, runs,
                   imported_info, resp>>

import_cash_flows ==
    /\ pc = "cash_flows"
    /\ \E order \in GlobOrders(source.cash_flow_statement) :
           cash_flow_statements' =
               Insert(cash_flow_statements,
                      Batches(order, valid_duns,
                              [k \in DOMAIN source.cash_flow_statement |->
                                  FinRecords(k, source.cash_flow_statement[k])]))
    /\ pc' = "income_statements"
    /\ UNCHANGED <<source, companies, balance_sheets, income_statements,
                   industries, operations, people, valid_duns, runs,
                   imported_info, resp>>

import_income_statements ==
    /\ pc = "income_statements"
    /\ \E order \in GlobOrders(source.income_statement) :
           income_statements' =
               Insert(income_statements,
                      Batches(order, valid_duns,
                              [k \in DOMAIN source.income_statement |->
                                  FinRecords(k, source.income_statement[k])]))
    /\ pc' = "industries"
    /\ UNCHANGED <<source, companies, balance_sheets, cash_flow_statements,
                   industries, operations, people, valid_duns, runs,
                   imported_info, resp>>

import_industries ==
    /\ pc = "industries"
    /\ \E order \in GlobOrders(source.industries) :
           industries' =
               Insert(industries,
                      Batches(order, valid_duns,
                              [k \in DOMAIN source.industries |->
                                  IndustryRecords(k, source.industries[k])]))
    /\ pc' = "operations"
    /\ UNCHANGED <<source, companies, balance_sheets, cash_flow_statements,
                   income_statements, operations, people, valid_duns, runs,
                   imported_info, resp>>

import_operations ==
    /\ pc = "operations"
    /\ \E order \in GlobOrders(source.operations) :
           operations' =
               Insert(operations,
                      Batches(order, valid_duns,
                              [k \in DOMAIN source.operations |->
                                  OperationRecords(k, source.operations[k])]))
    /\ pc' = "people"
    /\ UNCHANGED <<source, companies, balance_sheets, cash_flow_statements,
                   income_statements, industries, people, valid_duns, runs,
                   imported_info, resp>>

import_people ==
    /\ pc = "people"
    /\ \E order \in GlobOrders(source.people) :
           people' =
               Insert(people,
                      Batches(order, valid_duns,
                              [k \in DOMAIN source.people |->
                                  PersonRecords(k, source.people[k])]))
    /\ pc' = "idle"
    /\ UNCHANGED <<source, companies, balance_sheets, cash_flow_statements,
                   income_statements, industries, operations, valid_duns, runs,
                   imported_info, resp>>

\* Between two runs the company_info directory may be replaced (files added,
\* removed or rewritten); the other directories stay as they are.
EditCompanyInfo ==
    /\ pc = "idle"
    /\ 0 < runs /\ runs < MaxRuns
    /\ \E ci \in CompanyInfoDirs :
           /\ ci # source.company_info
           /\ source' = [source EXCEPT !.company_info = ci]
    /\ UNCHANGED <<tables, pc, valid_duns, runs, imported_info, resp>>

----------------------------------------------------------------------------
(* The query service: app/routers/*.py *)

\* Query(..., le=100) of page_size; Query(..., le=1000) of limit.
PAGE_SIZE_MAX == 100
LIMIT_MAX == 1000

\* Slice with a window one row too long.
SliceOneMore(rows, offset, limit) ==
    IF offset >= Len(rows) THEN <<>>
    ELSE SubSeq(rows, offset + 1, IF offset + limit + 1 > Len(rows) THEN Len(rows)
                                  ELSE offset + limit + 1)

\* query.offset(offset).limit(limit)
Slice(rows, offset, limit) ==
    IF offset >= Len(rows) THEN <<>>
    ELSE SubSeq(rows, offset + 1, IF offset + limit > Len(rows) THEN Len(rows)
                                  ELSE offset + limit)

RECURSIVE Unique(_)
\* Query.all() on one mapped entity: a row that repeats an entity already in the
\* result list is dropped (the ORM returns each identity once).
Unique(rows) ==
    IF rows = <<>> THEN <<>>
    ELSE LET init == Unique(SubSeq(rows, 1, Len(rows) - 1))
             last == rows[Len(rows)]
         IN  IF \E i \in 1..Len(init) : init[i] = last THEN init
             ELSE Append(init, last)

\* HTTPException(status_code=404, detail=f"Company with DUNS {duns} not found")
NotFound(duns) == [status |-> 404, detail |-> duns]

\* The 422 of the framework for a parameter outside its Query(ge=, le=) range.
Invalid == [status |-> 422]

\* db.query(Company).filter(Company.duns == duns).first()
FirstCompany(duns) == SelectSeq(companies, LAMBDA c : c.duns = duns)

\* query.join(Industry).filter(Industry.industry_code == code): one row per pair
\* of a company and a matching industries row (rows taken in industries order).
JoinIndustry(code) ==
    LET hits == SelectSeq(industries,
                          LAMBDA r : r.industry_code = code
                                     /\ FirstCompany(r.duns) # <<>>)
    IN  [i \in 1..Len(hits) |-> FirstCompany(hits[i].duns)[1]]

list_companies(page, page_size, industry_code, company_type, search) ==
    IF page < 1 \/ page_size < 1 \/ page_size > PAGE_SIZE_MAX THEN Invalid
    ELSE
    LET q0 == IF Truthy(industry_code) THEN JoinIndustry(industry_code) ELSE companies
        q1 == IF Truthy(company_type)
              THEN SelectSeq(q0, LAMBDA c : ILikeContains(c.company_type, company_type))
              ELSE q0
        q2 == IF Truthy(search)
              THEN SelectSeq(q1, LAMBDA c : \/ ILikeContains(c.physical_address, search)
                                            \/ ILikeContains(c.primary_sic, search))
              ELSE q1
        offset == (page - 1) * page_size
    IN  [status |-> 200, total |-> Len(q2), page |-> page, page_size |-> page_size,
         companies |-> Unique(Slice(q2, offset, page_size))]

OfCompany(table, duns) == SelectSeq(table, LAMBDA r : r.duns = duns)

get_company(duns) ==
    IF FirstCompany(duns) = <<>> THEN NotFound(duns)
    ELSE [status |-> 200, company |-> FirstCompany(duns)[1],
          industries |-> OfCompany(industries, duns),
          operations |-> OfCompany(operations, duns),
          people |-> OfCompany(people, duns)]

get_company_industries(duns) ==
    IF FirstCompany(duns) = <<>> THEN NotFound(duns)
    ELSE [status |-> 200, total |-> Len(OfCompany(industries, duns)),
          industries |-> OfCompany(industries, duns)]

get_company_operations(duns) ==
    IF FirstCompany(duns) = <<>> THEN NotFound(duns)
    ELSE [status |-> 200, total |-> Len(OfCompany(operations, duns)),
          operations |-> OfCompany(operations, duns)]

get_company_people(duns, page, page_size) ==
    IF page < 1 \/ page_size < 1 \/ page_size > PAGE_SIZE_MAX THEN Invalid
    ELSE IF FirstCompany(duns) = <<>> THEN NotFound(duns)
    ELSE LET q == OfCompany(people, duns)
         IN  [status |-> 200, total |-> Len(q), page |-> page, page_size |-> page_size,
              people |-> Slice(q, (page - 1) * page_size, page_size)]

\* if year: ... if line_item: ... of the six statement listings
FinFilter(rows, year, line_item) ==
    LET q1 == IF TruthyInt(year) THEN SelectSeq(rows, LAMBDA r : r.year = year[1])
              ELSE rows
    IN  IF Truthy(line_item)
        THEN SelectSeq(q1, LAMBDA r : ILikeContains(r.line_item, line_item))
        ELSE q1

\* A flat listing whose limit has no upper bound.
FinListNoUpperBound(table, year, line_item, limit, offset) ==
    IF limit < 1 \/ offset < 0 THEN Invalid
    ELSE LET q == FinFilter(table, year, line_item)
         IN  [status |-> 200, total |-> Len(q), year |-> year,
              records |-> Slice(q, offset, limit)]

\* The flat listing of one statement table.
FinList(table, year, line_item, limit, offset) ==
    IF limit < 1 \/ limit > LIMIT_MAX \/ offset < 0 THEN Invalid
    ELSE LET q == FinFilter(table, year, line_item)
         IN  [status |-> 200, total |-> Len(q), year |-> year,
              records |-> Slice(q, offset, limit)]

list_balance_sheets(year, line_item, limit, offset) ==
    FinList(balance_sheets, year, line_item, limit, offset)

list_cash_flows(year, line_item, limit, offset) ==
    FinList(cash_flow_statements, year, line_item, limit, offset)

list_income_statements(year, line_item, limit, offset) ==
    FinList(income_statements, year, line_item, limit, offset)

\* ORDER BY year DESC, line_item: a comes strictly before b.
OrderedBefore(a, b) ==
    \/ a.year > b.year
    \/ a.year = b.year /\ ~TextLeq(b.line_item, a.line_item)

RECURSIVE InsertOrdered(_, _)
InsertOrdered(sorted, x) ==
    IF sorted = <<>> THEN <<x>>
    ELSE IF OrderedBefore(x, Head(sorted)) THEN <<x>> \o sorted
    ELSE <<Head(sorted)>> \o InsertOrdered(Tail(sorted), x)

\* ORDER BY left out: the rows in rowid order.
OrderByNothing(rows) == rows

RECURSIVE OrderByYearDescLineItem(_)
\* query.order_by(year.desc(), line_item): rows equal in both keys keep rowid order.
OrderByYearDescLineItem(rows) ==
    IF rows = <<>> THEN <<>>
    ELSE InsertOrdered(OrderByYearDescLineItem(SubSeq(rows, 1, Len(rows) - 1)),
                       rows[Len(rows)])

\* FinCompany without the lookup of the Company row.
FinCompanyUnchecked(table, duns, year, line_item) ==
    LET records == OrderByYearDescLineItem(
                       FinFilter(OfCompany(table, duns), year, line_item))
    IN  [status |-> 200, total |-> Len(records), duns |-> duns, year |-> year,
         records |-> records]

\* The per-company listing of one statement table.
FinCompany(table, duns, year, line_item) ==
    IF FirstCompany(duns) = <<>> THEN NotFound(duns)
    ELSE LET records == OrderByYearDescLineItem(
                            FinFilter(OfCompany(table, duns), year, line_item))
         IN  [status |-> 200, total |-> Len(records), duns |-> duns, year |-> year,
              records |-> records]

get_company_balance_sheet(duns, year, line_item) ==
    FinCompany(balance_sheets, duns, year, line_item)

get_company_cash_flow(duns, year, line_item) ==
    FinCompany(cash_flow_statements, duns, year, line_item)

get_company_income_statement(duns, year, line_item) ==
    FinCompany(income_statements, duns, year, line_item)

\* list_people with the count taken before the filters are applied.
list_people_total_unfiltered(page, page_size, title, name, responsibilities) ==
    IF page < 1 \/ page_size < 1 \/ page_size > PAGE_SIZE_MAX THEN Invalid
    ELSE
    LET q1 == IF Truthy(title)
              THEN SelectSeq(people, LAMBDA r : ILikeContains(r.title, title))
              ELSE people
        q2 == IF Truthy(name)
              THEN SelectSeq(q1, LAMBDA r : ILikeContains(r.person_name, name))
              ELSE q1
        q3 == IF Truthy(responsibilities)
              THEN SelectSeq(q2, LAMBDA r : ILikeContains(r.responsibilities,
                                                          responsibilities))
              ELSE q2
    IN  [status |-> 200, total |-> Len(people), page |-> page, page_size |-> page_size,
         people |-> Slice(q3, (page - 1) * page_size, page_size)]

list_people(page, page_size, title, name, responsibilities) ==
    IF page < 1 \/ page_size < 1 \/ page_size > PAGE_SIZE_MAX THEN Invalid
    ELSE
    LET q1 == IF Truthy(title)
              THEN SelectSeq(people, LAMBDA r : ILikeContains(r.title, title))
              ELSE people
        q2 == IF Truthy(name)
              THEN SelectSeq(q1, LAMBDA r : ILikeContains(r.person_name, name))
              ELSE q1
        q3 == IF Truthy(responsibilities)
              THEN SelectSeq(q2, LAMBDA r : ILikeContains(r.responsibilities,
                                                          responsibilities))
              ELSE q2
    IN  [status |-> 200, total |-> Len(q3), page |-> page, page_size |-> page_size,
         people |-> Slice(q3, (page - 1) * page_size, page_size)]

list_industries(code, description, primary_only) ==
    LET q1 == IF Truthy(code)
              THEN SelectSeq(industries, LAMBDA r : r.industry_code = code)
              ELSE industries
        q2 == IF Truthy(description)
              THEN SelectSeq(q1, LAMBDA r : ILikeContains(r.industry_description,
                                                          description))
              ELSE q1
        q3 == IF primary_only THEN SelectSeq(q2, LAMBDA r : r.is_primary) ELSE q2
    IN  [status |-> 200, total |-> Len(q3), industries |-> q3]

----------------------------------------------------------------------------
(* The aggregation handlers *)

\* The sequences that list every element of a set once.
Enumerations(S) ==
    {o \in [1..Cardinality(S) -> S] : \A i, j \in DOMAIN o : o[i] = o[j] => i = j}

\* GROUP BY industry_code, industry_description over the rows whose code is
\* neither NULL nor '', with count(distinct duns) of each group.
CodeGroups ==
    LET rows == {industries[i] : i \in
                    {j \in 1..Len(industries) :
                        /\ industries[j].industry_code # NULL
                        /\ industries[j].industry_code # <<>>}}
    IN  {[code |-> r.industry_code,
          description |-> r.industry_description,
          company_count |->
              Cardinality({x.duns : x \in
                  {y \in rows : /\ y.industry_code = r.industry_code
                                /\ y.industry_description = r.industry_description}})] :
            r \in rows}

\* ORDER BY count(distinct duns) DESC: the groups in an order of non-increasing
\* count; the database picks the order of groups with equal counts.
CodeResults ==
    {o \in Enumerations(CodeGroups) :
        \A i \in 1..(Len(o) - 1) : o[i].company_count >= o[i + 1].company_count}

list_industry_codes(results) ==
    [status |-> 200, total |-> Len(results), codes |-> results]

\* GROUP BY title with count(id); NULL is a group of its own.
TitleGroups ==
    {[title |-> people[i].title,
      count |-> Cardinality({j \in 1..Len(people) : people[j].title = people[i].title})] :
        i \in 1..Len(people)}

\* The groups with the ORDER BY left out.
TitleResultsUnordered == Enumerations(TitleGroups)

\* ORDER BY count(id) DESC.
TitleResults ==
    {o \in Enumerations(TitleGroups) :
        \A i \in 1..(Len(o) - 1) : o[i].count >= o[i + 1].count}

\* total is the number of groups; the list leaves out the groups whose title
\* is falsy (None or '').
list_titles(results) ==
    [status |-> 200, total |-> Len(results),
     titles |-> SelectSeq(results, LAMBDA r : Truthy(r.title))]

RECURSIVE Split(_, _)
\* str.split(sep): the pieces of s between the separators.
Split(s, sep) ==
    IF \E i \in 1..Len(s) : s[i] = sep
    THEN LET k == CHOOSE i \in 1..Len(s) : s[i] = sep /\ \A j \in 1..(i - 1) : s[j] # sep
         IN  <<SubSeq(s, 1, k - 1)>> \o Split(SubSeq(s, k + 1, Len(s)), sep)
    ELSE <<s>>

RECURSIVE CountTags(_, _)
\* resp_counts after the tags (in order) have been counted: a sequence of
\* <<tag, count>> in the order in which the tags were first met (a dict keeps
\* insertion order).
CountTags(counts, tags) ==
    IF tags = <<>> THEN counts
    ELSE LET tag == Strip(Head(tags))
             next ==
                IF tag = <<>> THEN counts
                ELSE IF \E i \in 1..Len(counts) : counts[i][1] = tag
                THEN [i \in 1..Len(counts) |->
                         IF counts[i][1] = tag THEN <<tag, counts[i][2] + 1>>
                         ELSE counts[i]]
                ELSE Append(counts, <<tag, 1>>)
         IN  CountTags(next, Tail(tags))

RECURSIVE CountAllTags(_, _)
\* for (resp_str,) in all_people: if resp_str: for resp in resp_str.split(',')
CountAllTags(counts, rows) ==
    IF rows = <<>> THEN counts
    ELSE CountAllTags(IF Truthy(Head(rows).responsibilities)
                      THEN CountTags(counts, Split(Head(rows).responsibilities, ","))
                      ELSE counts,
                      Tail(rows))

RECURSIVE InsertByCount(_, _)
InsertByCount(sorted, x) ==
    IF sorted = <<>> THEN <<x>>
    ELSE IF x[2] > Head(sorted)[2] THEN <<x>> \o sorted
    ELSE <<Head(sorted)>> \o InsertByCount(Tail(sorted), x)

RECURSIVE SortedByCount(_)
\* sorted(items, key=count, reverse=True): stable.
SortedByCount(items) ==
    IF items = <<>> THEN <<>>
    ELSE InsertByCount(SortedByCount(SubSeq(items, 1, Len(items) - 1)),
                       items[Len(items)])

\* The handler counting over the distinct responsibilities texts (its first,
\* unused query) instead of over the rows.
list_responsibilities_of_distinct ==
    LET texts == [i \in 1..Len(people) |-> [responsibilities |-> people[i].responsibilities]]
        results == SelectSeq(Unique(texts),
                             LAMBDA r : r.responsibilities # NULL /\ r.responsibilities # <<>>)
        sorted_resp == SortedByCount(CountAllTags(<<>>, results))
    IN  [status |-> 200, total |-> Len(sorted_resp),
         responsibilities |->
             [i \in 1..Len(sorted_resp) |->
                 [responsibility |-> sorted_resp[i][1], count |-> sorted_resp[i][2]]]]

list_responsibilities ==
    LET all_people == SelectSeq(people, LAMBDA r : r.responsibilities # NULL)
        sorted_resp == SortedByCount(CountAllTags(<<>>, all_people))
    IN  [status |-> 200, total |-> Len(sorted_resp),
         responsibilities |->
             [i \in 1..Len(sorted_resp) |->
                 [responsibility |-> sorted_resp[i][1], count |-> sorted_resp[i][2]]]]

RECURSIVE AscendingTexts(_)
\* The texts of a set in ascending order (ORDER BY on a text column).
AscendingTexts(S) ==
    IF S = {} THEN <<>>
    ELSE LET least == CHOOSE x \in S : \A y \in S : TextLeq(x, y)
         IN  <<least>> \o AscendingTexts(S \ {least})

RECURSIVE DescendingInts(_)
\* The integers of a set in descending order.
DescendingInts(S) ==
    IF S = {} THEN <<>>
    ELSE LET most == CHOOSE x \in S : \A y \in S : x >= y
         IN  <<most>> \o DescendingInts(S \ {most})

\* GROUP BY line_item with count(id), ORDER BY line_item.
LineItems(table) ==
    LET results == AscendingTexts({table[i].line_item : i \in 1..Len(table)})
    IN  [status |-> 200, total |-> Len(results),
         line_items |->
             [i \in 1..Len(results) |->
                 [line_item |-> results[i],
                  record_count |->
                      Cardinality({j \in 1..Len(table) : table[j].line_item = results[i]})]]]

RECURSIVE AscendingInts(_)
AscendingInts(S) ==
    IF S = {} THEN <<>>
    ELSE LET least == CHOOSE x \in S : \A y \in S : x <= y
         IN  <<least>> \o AscendingInts(S \ {least})

\* The years with the DESC of the ORDER BY left out.
YearsAscending(table) ==
    [status |-> 200, years |-> AscendingInts({table[i].year : i \in 1..Len(table)})]

\* SELECT DISTINCT year ORDER BY year DESC.
Years(table) ==
    [status |-> 200, years |-> DescendingInts({table[i].year : i \in 1..Len(table)})]

list_balance_sheet_line_items == LineItems(balance_sheets)
list_balance_sheet_years == Years(balance_sheets)
list_cash_flow_line_items == LineItems(cash_flow_statements)
list_cash_flow_years == Years(cash_flow_statements)
list_income_statement_line_items == LineItems(income_statements)
list_income_statement_years == Years(income_statements)

NoResponse == [op |-> "none"]

----------------------------------------------------------------------------
(* Requests *)

\* Largest page, page size, limit and offset of a request of the model.
MaxPage == 2
MaxPageSize == 2
MaxOffset == 1

\* Business keys of requests.
ReqDuns == Stems
\* <<page, page_size>>: every pair in range, and pairs with one value out of range.
PageRequests ==
    ((1..MaxPage) \X (1..MaxPageSize))
    \cup {<<0, 1>>, <<1, 0>>, <<1, PAGE_SIZE_MAX + 1>>}
\* <<limit, offset>>: every pair in range, and pairs with one value out of range.
WindowRequests ==
    ((1..MaxPageSize) \X (0..MaxOffset))
    \cup {<<0, 0>>, <<LIMIT_MAX + 1, 0>>, <<1, 0 - 1>>}
\* year: absent, 0, a year of the data.
ReqYears == {NoVal, Val(0), Val(24)}
\* Text filters: absent, or a text to look for; a name filter may also be the
\* LIKE wildcard "_".
ReqLineItems == {NULL, <<"c">>}
ReqCodes == {NULL, <<"7">>}
ReqTypes == {NULL, <<"c">>}
ReqSearches == {NULL, <<"a">>}
ReqTitles == {NULL, <<"c">>}
ReqNames == {NULL, <<"b">>, <<"_">>}
ReqResponsibilities == {NULL, <<"a">>}
ReqDescriptions == {NULL, <<"a">>}

\* What a request leaves alone: everything but the response.
frame == <<source, tables, pc, valid_duns, runs, imported_info>>

Response(op, out) == [op |-> op, out |-> out]

\* A handler that takes the first row of a table out of the store.
FirstRowDeleted(table) == IF table = <<>> THEN table ELSE Tail(table)

\* A table after a handler has run on its session: the handlers call
\* db.query(...) only (no add, delete, merge or commit), so the table is as it
\* was.
ReadOnly(table) == table

\* The effect of a request on everything but the response.
StoreRead ==
    /\ companies' = ReadOnly(companies)
    /\ balance_sheets' = ReadOnly(balance_sheets)
    /\ cash_flow_statements' = ReadOnly(cash_flow_statements)
    /\ income_statements' = ReadOnly(income_statements)
    /\ industries' = ReadOnly(industries)
    /\ operations' = ReadOnly(operations)
    /\ people' = ReadOnly(people)
    /\ UNCHANGED <<source, pc, valid_duns, runs, imported_info>>

ListCompanies ==
    /\ resp = NoResponse
    /\ \E pg \in PageRequests, industry_code \in ReqCodes,
           company_type \in ReqTypes, search \in ReqSearches :
            resp' = Response("list_companies",
                    list_companies(pg[1], pg[2], industry_code, company_type, search))
    /\ StoreRead

GetCompany ==
    /\ resp = NoResponse
    /\ \E duns \in ReqDuns : resp' = Response("get_company", get_company(duns))
    /\ StoreRead

GetCompanyIndustries ==
    /\ resp = NoResponse
    /\ \E duns \in ReqDuns : resp' = Response("get_company_industries", get_company_industries(duns))
    /\ StoreRead

GetCompanyOperations ==
    /\ resp = NoResponse
    /\ \E duns \in ReqDuns : resp' = Response("get_company_operations", get_company_operations(duns))
    /\ StoreRead

GetCompanyPeople ==
    /\ resp = NoResponse
    /\ \E duns \in ReqDuns, pg \in PageRequests :
            resp' = Response("get_company_people", get_company_people(duns, pg[1], pg[2]))
    /\ StoreRead

ListBalanceSheets ==
    /\ resp = NoResponse
    /\ \E year \in ReqYears, line_item \in ReqLineItems, w \in WindowRequests :
            resp' = Response("list_balance_sheets", list_balance_sheets(year, line_item, w[1], w[2]))
    /\ StoreRead

ListCashFlows ==
    /\ resp = NoResponse
    /\ \E year \in ReqYears, line_item \in ReqLineItems, w \in WindowRequests :
            resp' = Response("list_cash_flows", list_cash_flows(year, line_item, w[1], w[2]))
    /\ StoreRead

ListIncomeStatements ==
    /\ resp = NoResponse
    /\ \E year \in ReqYears, line_item \in ReqLineItems, w \in WindowRequests :
            resp' = Response("list_income_statements",
                    list_income_statements(year, line_item, w[1], w[2]))
    /\ StoreRead

GetCompanyBalanceSheet ==
    /\ resp = NoResponse
    /\ \E duns \in ReqDuns, year \in ReqYears, line_item \in ReqLineItems :
            resp' = Response("get_company_balance_sheet",
                    get_company_balance_sheet(duns, year, line_item))
    /\ StoreRead

GetCompanyCashFlow ==
    /\ resp = NoResponse
    /\ \E duns \in ReqDuns, year \in ReqYears, line_item \in ReqLineItems :
            resp' = Response("get_company_cash_flow", get_company_cash_flow(duns, year, line_item))
    /\ StoreRead

GetCompanyIncomeStatement ==
    /\ resp = NoResponse
    /\ \E duns \in ReqDuns, year \in ReqYears, line_item \in ReqLineItems :
            resp' = Response("get_company_income_statement",
                    get_company_income_statement(duns, year, line_item))
    /\ StoreRead

ListPeople ==
    /\ resp = NoResponse
    /\ \E pg \in PageRequests, title \in ReqTitles,
           name \in ReqNames, responsibilities \in ReqResponsibilities :
            resp' = Response("list_people",
                    list_people(pg[1], pg[2], title, name, responsibilities))
    /\ StoreRead

ListIndustries ==
    /\ resp = NoResponse
    /\ \E code \in ReqCodes, description \in ReqDescriptions, primary_only \in BOOLEAN :
            resp' = Response("list_industries", list_industries(code, description, primary_only))
    /\ StoreRead

ListIndustryCodes ==
    /\ resp = NoResponse
    /\ \E results \in CodeResults :
            resp' = Response("list_industry_codes", list_industry_codes(results))
    /\ StoreRead

ListTitles ==
    /\ resp = NoResponse
    /\ \E results \in TitleResults : resp' = Response("list_titles", list_titles(results))
    /\ StoreRead

ListResponsibilities ==
    /\ resp = NoResponse
    /\ resp' = Response("list_responsibilities", list_responsibilities)
    /\ StoreRead

ListLineItems ==
    /\ resp = NoResponse
    /\ \/ resp' = Response("list_balance_sheet_line_items", list_balance_sheet_line_items)
       \/ resp' = Response("list_cash_flow_line_items", list_cash_flow_line_items)
       \/ resp' = Response("list_income_statement_line_items",
                           list_income_statement_line_items)
    /\ StoreRead

ListYears ==
    /\ resp = NoResponse
    /\ \/ resp' = Response("list_balance_sheet_years", list_balance_sheet_years)
       \/ resp' = Response("list_cash_flow_years", list_cash_flow_years)
       \/ resp' = Response("list_income_statement_years", list_income_statement_years)
    /\ StoreRead

\* The response has been sent: the request is over.
Reply ==
    /\ resp # NoResponse
    /\ resp' = NoResponse
    /\ UNCHANGED frame

Query ==
    \/ ListCompanies
    \/ GetCompany
    \/ GetCompanyIndustries
    \/ GetCompanyOperations
    \/ GetCompanyPeople
    \/ ListBalanceSheets
    \/ ListCashFlows
    \/ ListIncomeStatements
    \/ GetCompanyBalanceSheet
    \/ GetCompanyCashFlow
    \/ GetCompanyIncomeStatement
    \/ ListPeople
    \/ ListIndustries
    \/ ListIndustryCodes
    \/ ListTitles
    \/ ListResponsibilities
    \/ ListLineItems
    \/ ListYears
    \/ Reply

Init ==
    /\ source \in SourceTrees
    /\ companies = <<>>
    /\ balance_sheets = <<>>
    /\ cash_flow_statements = <<>>
    /\ income_statements = <<>>
    /\ industries = <<>>
    /\ operations = <<>>
    /\ people = <<>>
    /\ pc = "idle"
    /\ valid_duns = {}
    /\ runs = 0
    /\ imported_info = <<>>
    /\ resp = NoResponse

Importer ==
    \/ import_company_info
    \/ import_balance_sheets
    \/ import_cash_flows
    \/ import_income_statements
    \/ import_industries
    \/ import_operations
    \/ import_people
    \/ EditCompanyInfo

Next == Importer

\* The importer, run any number of times over a source tree whose company_info
\* directory may change between runs.
Spec == Init /\ [][Next]_vars

----------------------------------------------------------------------------
(* The query service over the store the importer left *)

RECURSIVE InsertTimes(_, _, _)
\* The table after n runs have each appended recs.
InsertTimes(table, recs, n) ==
    IF n = 0 THEN table ELSE InsertTimes(Insert(table, recs), recs, n - 1)

\* The rows of a table that remain when the Company rows of the keys in lost
\* are to be absent.
Kept(table, lost) == SelectSeq(table, LAMBDA r : r.duns \notin lost)

\* The service does not read the source tree.
NoTree ==
    [company_info |-> <<>>, balance_sheet |-> <<>>, cash_flow_statement |-> <<>>,
     income_statement |-> <<>>, industries |-> <<>>, operations |-> <<>>,
     people |-> <<>>]

\* The store when the service starts: n import runs over one source tree have
\* been made.  lost is a set of keys whose Company row has since been deleted
\* from the database file by hand, which leaves the dependent rows of the key
\* behind (SQLite does not enforce the foreign key): the data anomaly the
\* per-company handlers guard against.
InitQuery ==
    \E src \in SourceTrees, n \in 0..MaxRuns, lost \in SUBSET Stems :
      \E oc \in GlobOrders(src.company_info),
         ob \in GlobOrders(src.balance_sheet),
         of \in GlobOrders(src.cash_flow_statement),
         oi \in GlobOrders(src.income_statement),
         on \in GlobOrders(src.industries),
         oo \in GlobOrders(src.operations),
         op \in GlobOrders(src.people) :
        LET valid == DOMAIN src.company_info
        IN  /\ source = NoTree
            /\ runs = 0
            /\ companies =
                   Kept(IF n = 0 THEN <<>> ELSE MergeAll(<<>>, oc, src.company_info), lost)
            /\ balance_sheets =
                   InsertTimes(<<>>, Batches(ob, valid,
                       [k \in DOMAIN src.balance_sheet |->
                           FinRecords(k, src.balance_sheet[k])]), n)
            /\ cash_flow_statements =
                   InsertTimes(<<>>, Batches(of, valid,
                       [k \in DOMAIN src.cash_flow_statement |->
                           FinRecords(k, src.cash_flow_statement[k])]), n)
            /\ income_statements =
                   InsertTimes(<<>>, Batches(oi, valid,
                       [k \in DOMAIN src.income_statement |->
                           FinRecords(k, src.income_statement[k])]), n)
            /\ industries =
                   InsertTimes(<<>>, Batches(on, valid,
                       [k \in DOMAIN src.industries |->
                           IndustryRecords(k, src.industries[k])]), n)
            /\ operations =
                   InsertTimes(<<>>, Batches(oo, valid,
                       [k \in DOMAIN src.operations |->
                           OperationRecords(k, src.operations[k])]), n)
            /\ people =
                   InsertTimes(<<>>, Batches(op, valid,
                       [k \in DOMAIN src.people |->
                           PersonRecords(k, src.people[k])]), n)
            /\ pc = "idle"
            /\ valid_duns = {}
            /\ imported_info = <<>>
            /\ resp = NoResponse

NextQuery == Query

SpecQuery == InitQuery /\ [][NextQuery]_vars

----------------------------------------------------------------------------
(* A listing request while the importer runs *)

\* A listing handler reads the store twice: total = query.count(), then
\* query.offset(offset).limit(limit).all().  The requests are for the first
\* item (page 1 of size 1, limit 1 at offset 0), list_people with a title
\* filter.  The first
\* read of list_people: the count is kept with the request; rows is the number
\* of Person rows at the time of the count.
CountPeople ==
    /\ resp = NoResponse
    /\ \E pg \in {<<1, 1>>}, title \in ReqTitles \ {NULL} :
           resp' = [op |-> "list_people", step |-> "count",
                    page |-> pg[1], page_size |-> pg[2], title |-> title,
                    total |-> list_people(pg[1], pg[2], title, NULL, NULL).total,
                    rows |-> Len(people)]
    /\ StoreRead

\* The second read of list_people, and the response with the total of the
\* first.
FetchPeople ==
    /\ resp.op = "list_people"
    /\ "step" \in DOMAIN resp
    /\ resp' = Response("list_people",
                        [list_people(resp.page, resp.page_size, resp.title, NULL, NULL)
                            EXCEPT !.total = resp.total])
    /\ StoreRead

\* The first read of list_balance_sheets.
CountBalanceSheets ==
    /\ resp = NoResponse
    /\ \E w \in {<<1, 0>>}, line_item \in {NULL} :
           resp' = [op |-> "list_balance_sheets", step |-> "count",
                    limit |-> w[1], offset |-> w[2], line_item |-> line_item,
                    total |-> list_balance_sheets(NoVal, line_item, w[1], w[2]).total,
                    rows |-> Len(balance_sheets)]
    /\ StoreRead

\* The second read of list_balance_sheets, and the response.
FetchBalanceSheets ==
    /\ resp.op = "list_balance_sheets"
    /\ "step" \in DOMAIN resp
    /\ resp' = Response("list_balance_sheets",
                        [list_balance_sheets(NoVal, resp.line_item, resp.limit, resp.offset)
                            EXCEPT !.total = resp.total])
    /\ StoreRead

\* The session of a request holds no transaction over its two reads: each read
\* sees the rows committed so far, and a commit of the importer (the end of one
\* of its import steps) can fall between them.
NextInterleaved ==
    \/ Importer
    \/ CountPeople
    \/ FetchPeople
    \/ CountBalanceSheets
    \/ FetchBalanceSheets
    \/ Reply

SpecInterleaved == Init /\ [][NextInterleaved]_vars

----------------------------------------------------------------------------
(* parse_numeric_value on its own *)

\* Length of the texts parse_numeric_value is called with.
MaxLen == 3

\* The characters of the texts: whitespace, the characters the function looks
\* for, digits.
Chars == {" ", "\t", "-", "(", ")", "$", ",", "%", ".", "0", "5", "\"", "'"}

\* The value texts of the documentation: "$43,079", "($34,984)", "12.5%".
DocTexts ==
    { <<"$", "4", "3", ",", "0", "7", "9">>,
      <<"(", "$", "3", "4", ",", "9", "8", "4", ")">>,
      <<"1", "2", ".", "5", "%">> }

\* A value in parentheses with a minus sign in front: "-(5)".
SignedTexts == { <<"-", "(", "5", ")">> }

\* The curly double quotes U+201C and U+201D, each one character of a text.
LeftCurly == "ldquo"
RightCurly == "rdquo"

\* Values in quotes: in curly quotes, in two layers of apostrophes, a percentage
\* in two layers of double quotes, apostrophes inside double quotes and the
\* other way round.
QuotedTexts ==
    { <<LeftCurly, "5", RightCurly>>,
      <<"'", "'", "5", "'", "'">>,
      <<"\"", "\"", "5", "%", "\"", "\"">>,
      <<"\"", "'", "5", "'", "\"">>,
      <<"'", "\"", "5", "%", "\"", "'">> }

Texts ==
    UNION {[1..n -> Chars] : n \in 0..MaxLen} \cup DocTexts \cup SignedTexts
        \cup QuotedTexts

\* A call of parse_numeric_value with a text is pending.
InitNormalize ==
    /\ resp \in {[op |-> "call", value_str |-> t] : t \in Texts}
    /\ source = NoTree
    /\ companies = <<>>
    /\ balance_sheets = <<>>
    /\ cash_flow_statements = <<>>
    /\ income_statements = <<>>
    /\ industries = <<>>
    /\ operations = <<>>
    /\ people = <<>>
    /\ pc = "idle"
    /\ valid_duns = {}
    /\ runs = 0
    /\ imported_info = <<>>

\* The call returns.
Normalize ==
    /\ resp.op = "call"
    /\ resp' = [op |-> "parse_numeric_value", value_str |-> resp.value_str,
                out |-> parse_numeric_value(resp.value_str)]
    /\ UNCHANGED frame

NextNormalize == Normalize

SpecNormalize == InitNormalize /\ [][NextNormalize]_vars

----------------------------------------------------------------------------
(* Properties *)

\* Requests whose pagination parameters are in range.
ValidPages == {pg \in PageRequests : pg[1] >= 1 /\ pg[2] >= 1 /\ pg[2] <= PAGE_SIZE_MAX}
ValidWindows == {w \in WindowRequests : w[1] >= 1 /\ w[1] <= LIMIT_MAX /\ w[2] >= 0}

HasCompany(duns) == \E i \in 1..Len(companies) : companies[i].duns = duns

\* Every dependent row has a key for which a Company row exists.
NoOrphans ==
    /\ \A i \in 1..Len(balance_sheets) : HasCompany(balance_sheets[i].duns)
    /\ \A i \in 1..Len(cash_flow_statements) : HasCompany(cash_flow_statements[i].duns)
    /\ \A i \in 1..Len(income_statements) : HasCompany(income_statements[i].duns)
    /\ \A i \in 1..Len(industries) : HasCompany(industries[i].duns)
    /\ \A i \in 1..Len(operations) : HasCompany(operations[i].duns)
    /\ \A i \in 1..Len(people) : HasCompany(people[i].duns)

IsNotFound(out, duns) == out.status = 404 /\ out.detail = duns

\* C1: a per-company operation (company detail; industries, operations, people,
\* balance-sheet, cash-flow and income-statement listings of a company) called
\* with a key that has no Company row answers 404 carrying the key, never a
\* list, also when dependent rows with the key are in the store.
C1_NotFoundPropagation ==
    \A duns \in ReqDuns :
        ~HasCompany(duns) =>
            /\ IsNotFound(get_company(duns), duns)
            /\ IsNotFound(get_company_industries(duns), duns)
            /\ IsNotFound(get_company_operations(duns), duns)
            /\ \A pg \in ValidPages :
                   IsNotFound(get_company_people(duns, pg[1], pg[2]), duns)
            /\ \A year \in ReqYears, line_item \in ReqLineItems :
                   /\ IsNotFound(get_company_balance_sheet(duns, year, line_item), duns)
                   /\ IsNotFound(get_company_cash_flow(duns, year, line_item), duns)
                   /\ IsNotFound(get_company_income_statement(duns, year, line_item), duns)

\* C1 witness: the balance-sheet listing of a company answered 404 although
\* balance-sheet rows with the requested key are in the store.
C1_Witness ==
    /\ resp # NoResponse
    /\ resp.op = "get_company_balance_sheet"
    /\ resp.out.status = 404
    /\ \E i \in 1..Len(balance_sheets) : balance_sheets[i].duns = resp.out.detail

\* No response is pending.  The handlers read the store only, and every store
\* of a behaviour occurs in a state without a pending response.
Quiet == resp = NoResponse

\* x occurs in s as a run of consecutive characters.
IsSubstring(x, s) ==
    \E i \in 0..(Len(s) - Len(x)) : SubSeq(s, i + 1, i + Len(x)) = x

\* Case-insensitive substring match of a filter text on a nullable column.
ContainsCI(column, x) == column # NULL /\ IsSubstring(Lower(x), Lower(column))

\* The rows lo+1 .. hi of a sequence (the slice [lo, hi) counted from 0).
Window(rows, lo, hi) ==
    [i \in 1..((IF hi < Len(rows) THEN hi ELSE Len(rows)) - lo) |-> rows[lo + i]]

Range(f) == {f[i] : i \in DOMAIN f}

HasIndustry(duns, code) ==
    \E i \in 1..Len(industries) :
        industries[i].duns = duns /\ industries[i].industry_code = code

\* The filters of the claims: a parameter is supplied when it is not absent.
CompanyMatches(c, industry_code, company_type, search) ==
    /\ industry_code # NULL => HasIndustry(c.duns, industry_code)
    /\ company_type # NULL => ContainsCI(c.company_type, company_type)
    /\ search # NULL =>
           ContainsCI(c.physical_address, search) \/ ContainsCI(c.primary_sic, search)

PersonMatches(r, title, name, responsibilities) ==
    /\ title # NULL => ContainsCI(r.title, title)
    /\ name # NULL => ContainsCI(r.person_name, name)
    /\ responsibilities # NULL => ContainsCI(r.responsibilities, responsibilities)

IndustryMatches(r, code, description, primary_only) ==
    /\ code # NULL => r.industry_code = code
    /\ description # NULL => ContainsCI(r.industry_description, description)
    /\ primary_only => r.is_primary

FinMatches(r, year, line_item) ==
    /\ year # NoVal => r.year = year[1]
    /\ line_item # NULL => ContainsCI(r.line_item, line_item)

\* The statement tables and their flat and per-company listings.
FinTables == {"balance_sheets", "cash_flow_statements", "income_statements"}

FinTable(t) ==
    CASE t = "balance_sheets" -> balance_sheets
      [] t = "cash_flow_statements" -> cash_flow_statements
      [] OTHER -> income_statements

FlatListing(t, year, line_item, limit, offset) ==
    CASE t = "balance_sheets" -> list_balance_sheets(year, line_item, limit, offset)
      [] t = "cash_flow_statements" -> list_cash_flows(year, line_item, limit, offset)
      [] OTHER -> list_income_statements(year, line_item, limit, offset)

CompanyListing(t, duns, year, line_item) ==
    CASE t = "balance_sheets" -> get_company_balance_sheet(duns, year, line_item)
      [] t = "cash_flow_statements" -> get_company_cash_flow(duns, year, line_item)
      [] OTHER -> get_company_income_statement(duns, year, line_item)

\* C2: in every paginated listing total is the number of items that match the
\* filters, and the items are the slice [(page-1)*page_size, page*page_size)
\* (resp. [offset, offset+limit)) of the sequence of the matching items; a page
\* past the end is an empty list with the same total, not an error.
C2_TotalAndSlice ==
    (Quiet /\ NoOrphans) =>
        /\ \A pg \in ValidPages, industry_code \in ReqCodes,
              company_type \in ReqTypes, search \in ReqSearches :
               LET out == list_companies(pg[1], pg[2], industry_code, company_type, search)
                   all == SelectSeq(companies,
                              LAMBDA c : CompanyMatches(c, industry_code, company_type, search))
               IN  /\ out.status = 200
                   /\ out.total = Len(all)
                   /\ out.companies = Window(all, (pg[1] - 1) * pg[2], pg[1] * pg[2])
        /\ \A pg \in ValidPages, title \in ReqTitles, name \in ReqNames,
              responsibilities \in ReqResponsibilities :
               LET out == list_people(pg[1], pg[2], title, name, responsibilities)
                   all == SelectSeq(people,
                              LAMBDA r : PersonMatches(r, title, name, responsibilities))
               IN  /\ out.status = 200
                   /\ out.total = Len(all)
                   /\ out.people = Window(all, (pg[1] - 1) * pg[2], pg[1] * pg[2])
        /\ \A pg \in ValidPages, duns \in {d \in ReqDuns : HasCompany(d)} :
               LET out == get_company_people(duns, pg[1], pg[2])
                   all == SelectSeq(people, LAMBDA r : r.duns = duns)
               IN  /\ out.status = 200
                   /\ out.total = Len(all)
                   /\ out.people = Window(all, (pg[1] - 1) * pg[2], pg[1] * pg[2])
        /\ \A t \in FinTables, w \in ValidWindows, year \in ReqYears,
              line_item \in ReqLineItems :
               LET out == FlatListing(t, year, line_item, w[1], w[2])
                   all == SelectSeq(FinTable(t), LAMBDA r : FinMatches(r, year, line_item))
               IN  /\ out.status = 200
                   /\ out.total = Len(all)
                   /\ out.records = Window(all, w[2], w[2] + w[1])

\* C3: a listing returns at most page_size (limit) items, and total is at least
\* the number of items returned.
C3_PageWithinBounds ==
    Quiet =>
        /\ \A pg \in ValidPages, industry_code \in ReqCodes,
              company_type \in ReqTypes, search \in ReqSearches :
               LET out == list_companies(pg[1], pg[2], industry_code, company_type, search)
               IN  Len(out.companies) <= pg[2] /\ out.total >= Len(out.companies)
        /\ \A pg \in ValidPages, title \in ReqTitles, name \in ReqNames,
              responsibilities \in ReqResponsibilities :
               LET out == list_people(pg[1], pg[2], title, name, responsibilities)
               IN  Len(out.people) <= pg[2] /\ out.total >= Len(out.people)
        /\ \A pg \in ValidPages, duns \in {d \in ReqDuns : HasCompany(d)} :
               LET out == get_company_people(duns, pg[1], pg[2])
               IN  Len(out.people) <= pg[2] /\ out.total >= Len(out.people)
        /\ \A t \in FinTables, w \in ValidWindows, year \in ReqYears,
              line_item \in ReqLineItems :
               LET out == FlatListing(t, year, line_item, w[1], w[2])
               IN  Len(out.records) <= w[1] /\ out.total >= Len(out.records)

\* C3 witness: a company listing answered with a full page and a total larger
\* than the page.
C3_Witness ==
    /\ resp # NoResponse
    /\ resp.op = "list_companies"
    /\ resp.out.status = 200
    /\ Len(resp.out.companies) = resp.out.page_size
    /\ resp.out.total > Len(resp.out.companies)
    /\ NoOrphans

\* The companies that have at least one Industry row with the code.
WithIndustry(code) == {c \in Range(companies) : HasIndustry(c.duns, code)}

\* C4: list_companies with an industry_code returns the companies that have at
\* least one Industry row with that code, each once: total is the number of
\* such companies, and a page holds as many of them as the slice has slots.
C4_IndustrySemiJoin ==
    (Quiet /\ NoOrphans) =>
        \A pg \in ValidPages, industry_code \in ReqCodes \ {NULL} :
            LET out == list_companies(pg[1], pg[2], industry_code, NULL, NULL)
                n == Cardinality(WithIndustry(industry_code))
                rest == n - (pg[1] - 1) * pg[2]
            IN  /\ out.status = 200
                /\ out.total = n
                /\ Range(out.companies) \subseteq WithIndustry(industry_code)
                /\ Cardinality(Range(out.companies)) = Len(out.companies)
                /\ Len(out.companies) =
                       (IF rest < 0 THEN 0 ELSE IF rest < pg[2] THEN rest ELSE pg[2])

\* C5: a financial listing called with a year, 0 included, returns records of
\* that fiscal year only, and its total counts the records of that year only.
C5_YearExact ==
    (Quiet /\ NoOrphans) =>
        \A t \in FinTables, year \in ReqYears \ {NoVal}, line_item \in ReqLineItems :
            /\ \A w \in ValidWindows :
                   LET out == FlatListing(t, year, line_item, w[1], w[2])
                   IN  /\ out.status = 200
                       /\ \A i \in 1..Len(out.records) : out.records[i].year = year[1]
                       /\ out.total =
                              Len(SelectSeq(FinTable(t), LAMBDA r :
                                      r.year = year[1] /\ FinMatches(r, NoVal, line_item)))
            /\ \A duns \in {d \in ReqDuns : HasCompany(d)} :
                   LET out == CompanyListing(t, duns, year, line_item)
                   IN  /\ out.status = 200
                       /\ \A i \in 1..Len(out.records) : out.records[i].year = year[1]

\* C6: filters combine conjunctively: a listing returns an item if and only if
\* the item satisfies every supplied filter, a text filter being a
\* case-insensitive substring match on its own column.  (The page is as large
\* as the service allows, so that every returned item is on it.)
C6_ConjunctiveFilters ==
    (Quiet /\ NoOrphans) =>
        /\ \A title \in ReqTitles, name \in ReqNames,
              responsibilities \in ReqResponsibilities :
               Range(list_people(1, PAGE_SIZE_MAX, title, name, responsibilities).people)
                   = {r \in Range(people) : PersonMatches(r, title, name, responsibilities)}
        /\ \A code \in ReqCodes, description \in ReqDescriptions,
              primary_only \in BOOLEAN :
               Range(list_industries(code, description, primary_only).industries)
                   = {r \in Range(industries) :
                          IndustryMatches(r, code, description, primary_only)}
        /\ \A industry_code \in ReqCodes, company_type \in ReqTypes,
              search \in ReqSearches :
               Range(list_companies(1, PAGE_SIZE_MAX, industry_code, company_type,
                                    search).companies)
                   = {c \in Range(companies) :
                          CompanyMatches(c, industry_code, company_type, search)}
        /\ \A t \in FinTables, year \in ReqYears, line_item \in ReqLineItems :
               /\ Range(FlatListing(t, year, line_item, LIMIT_MAX, 0).records)
                      = {r \in Range(FinTable(t)) : FinMatches(r, year, line_item)}
               /\ \A duns \in {d \in ReqDuns : HasCompany(d)} :
                      Range(CompanyListing(t, duns, year, line_item).records)
                          = {r \in Range(FinTable(t)) :
                                 r.duns = duns /\ FinMatches(r, year, line_item)}

\* C7: the per-company statement listings are ordered by fiscal year
\* descending and, within a year, by line item ascending.
C7_StatementOrder ==
    Quiet =>
        \A t \in FinTables, duns \in ReqDuns, year \in ReqYears,
           line_item \in ReqLineItems :
            LET out == CompanyListing(t, duns, year, line_item)
            IN  out.status = 200 =>
                    \A i \in 1..(Len(out.records) - 1) :
                        LET r1 == out.records[i]
                            r2 == out.records[i + 1]
                        IN  \/ r1.year > r2.year
                            \/ r1.year = r2.year /\ TextLeq(r1.line_item, r2.line_item)

\* C7 witness: a per-company listing answered with records of two years and,
\* within one year, of two line items, in another order than the rows were
\* inserted.
C7_Witness ==
    /\ resp # NoResponse
    /\ resp.op \in {"get_company_balance_sheet", "get_company_cash_flow",
                    "get_company_income_statement"}
    /\ resp.out.status = 200
    /\ NoOrphans
    /\ \E i, j \in 1..Len(resp.out.records) :
           i < j /\ resp.out.records[i].year > resp.out.records[j].year
    /\ \E i, j \in 1..Len(resp.out.records) :
           /\ i < j
           /\ resp.out.records[i].year = resp.out.records[j].year
           /\ resp.out.records[i].line_item # resp.out.records[j].line_item
           /\ resp.out.records[i].id > resp.out.records[j].id

\* The dependent rows of a key, table by table.
RowsOf(duns) ==
    [t \in {"balance_sheets", "cash_flow_statements", "income_statements",
            "industries", "operations", "people"} |->
        SelectSeq(CASE t = "balance_sheets" -> balance_sheets
                    [] t = "cash_flow_statements" -> cash_flow_statements
                    [] t = "income_statements" -> income_statements
                    [] t = "industries" -> industries
                    [] t = "operations" -> operations
                    [] OTHER -> people,
                  LAMBDA r : r.duns = duns)]

\* C8: in every state of the importer, the states inside a run included, every
\* dependent row has a key for which a Company row exists; inside a run the
\* Company rows of every key the run accepts are in the store already.
C8_ReferentialIntegrity ==
    /\ NoOrphans
    /\ pc # "idle" => \A duns \in valid_duns : HasCompany(duns)

\* C8 witness: inside a second run, dependent rows of the run are in the store
\* and further dependent steps are still to come.
C8_Witness ==
    /\ pc = "industries"
    /\ runs = 2
    /\ Len(balance_sheets) + Len(cash_flow_statements) + Len(income_statements) > 3
    /\ valid_duns # {}

\* What the flat listings show of a key.
ShownOf(duns) ==
    << SelectSeq(list_balance_sheets(NoVal, NULL, LIMIT_MAX, 0).records,
                 LAMBDA r : r.duns = duns),
       SelectSeq(list_cash_flows(NoVal, NULL, LIMIT_MAX, 0).records,
                 LAMBDA r : r.duns = duns),
       SelectSeq(list_income_statements(NoVal, NULL, LIMIT_MAX, 0).records,
                 LAMBDA r : r.duns = duns),
       SelectSeq(list_industries(NULL, NULL, FALSE).industries,
                 LAMBDA r : r.duns = duns),
       SelectSeq(list_people(1, PAGE_SIZE_MAX, NULL, NULL, NULL).people,
                 LAMBDA r : r.duns = duns) >>

\* C9: orphan exclusion.  No step of the importer adds a dependent row, or
\* changes what a listing shows, for a key that has no file in the company_info
\* directory of the source, and a dependent step goes on to the next step of
\* the run whether or not such a file is there.
C9_OrphanExclusion ==
    [][ /\ \A duns \in Stems :
               duns \notin DOMAIN source.company_info =>
                   /\ RowsOf(duns)' = RowsOf(duns)
                   /\ ShownOf(duns)' = ShownOf(duns)
        /\ pc # "idle" => pc' # pc
      ]_vars

\* C9 witness: a run over a source that has company_info files is over, the
\* source has a dependent file of a key without company_info file, and the
\* store has no dependent row of that key.
C9_Witness ==
    /\ pc = "idle"
    /\ runs >= 1
    /\ \E dir \in DepDirs, duns \in Stems :
           /\ duns \in DOMAIN source[dir]
           /\ duns \notin DOMAIN source.company_info
           /\ source.company_info = imported_info[Len(imported_info)]
           /\ source.company_info # <<>>
           /\ \A t \in DOMAIN RowsOf(duns) : RowsOf(duns)[t] = <<>>

\* The Company rows one import of a company_info directory leaves: one row per
\* file, with the values of the file.
LeftByImport(dir) ==
    {ReadCompanyInfo(NoInfo(duns), dir[duns]) : duns \in DOMAIN dir}

\* C10: the Company import is idempotent: a Company import over the
\* company_info directory that the import before it read leaves the Company
\* rows as they are, their number and every value; after an import the store
\* has one Company row per file of the directory, with the values of the file.
C10_CompanyImportIdempotent ==
    /\ [](imported_info # <<>> =>
            LET dir == imported_info[Len(imported_info)]
            IN  /\ LeftByImport(dir) \subseteq Range(companies)
                /\ \A i, j \in 1..Len(companies) :
                       companies[i].duns = companies[j].duns => i = j)
    /\ [][ (/\ pc = "idle"
            /\ pc' = "balance_sheets"
            /\ imported_info # <<>>
            /\ source.company_info = imported_info[Len(imported_info)])
           => companies' = companies ]_vars

\* C10 witness: two runs have imported the same company_info directory of two
\* files, and the store has two Company rows.
C10_Witness ==
    /\ Len(imported_info) = 2
    /\ imported_info[1] = imported_info[2]
    /\ Cardinality(DOMAIN imported_info[1]) = 2
    /\ Len(companies) = 2

\* The dependent tables and the directory each is imported from.
DepTables == {"balance_sheets", "cash_flow_statements", "income_statements",
              "industries", "operations", "people"}

DepTable(t) ==
    CASE t = "balance_sheets" -> balance_sheets
      [] t = "cash_flow_statements" -> cash_flow_statements
      [] t = "income_statements" -> income_statements
      [] t = "industries" -> industries
      [] t = "operations" -> operations
      [] OTHER -> people

DepDir(t) ==
    CASE t = "balance_sheets" -> "balance_sheet"
      [] t = "cash_flow_statements" -> "cash_flow_statement"
      [] t = "income_statements" -> "income_statement"
      [] OTHER -> t

\* The records one run makes of the files of a table's directory that have a
\* company_info file in info (in some glob order).
OneRun(t, info) ==
    LET dir == source[DepDir(t)]
        per == [k \in DOMAIN dir |->
                   CASE t \in FinTables -> FinRecords(k, dir[k])
                     [] t = "industries" -> IndustryRecords(k, dir[k])
                     [] t = "operations" -> OperationRecords(k, dir[k])
                     [] OTHER -> PersonRecords(k, dir[k])]
    IN  Batches(CHOOSE o \in GlobOrders(dir) : TRUE, DOMAIN info, per)

\* The number of rows of a table that are the record rec.
Copies(table, rec) ==
    Cardinality({i \in 1..Len(table) : StripId(table[i]) = rec})

\* Every run so far imported the same company_info directory.
SameSourceRuns ==
    /\ pc = "idle"
    /\ imported_info # <<>>
    /\ \A i \in 1..Len(imported_info) : imported_info[i] = imported_info[1]

\* C11: after k full runs over the same source every dependent table has
\* exactly k copies of each record of one run, k times the rows of one run,
\* while the Company table has the rows of one run.
C11_DependentsAppendOnly ==
    SameSourceRuns =>
        /\ Len(companies) = Cardinality(DOMAIN imported_info[1])
        /\ \A t \in DepTables :
               LET one == OneRun(t, imported_info[1])
               IN  /\ Len(DepTable(t)) = runs * Len(one)
                   /\ \A i \in 1..Len(one) :
                          Copies(DepTable(t), one[i])
                              = runs * Cardinality({j \in 1..Len(one) : one[j] = one[i]})

\* C11 witness: two runs over the same source are over, and a dependent table
\* has twice the three rows of its file beside one Company row.
C11_Witness ==
    /\ SameSourceRuns
    /\ runs = 2
    /\ Len(companies) = 1
    /\ \E t \in DepTables : Len(DepTable(t)) = 6

\* The step of a run that imports the company_info directory.
CompanyImportStep == pc = "idle" /\ pc' = "balance_sheets"

\* C12 as stated (first write wins): a Company import leaves every Company row
\* that is in the store with the field values it has.
C12_FirstWriteWins ==
    [][ CompanyImportStep =>
            \A i \in 1..Len(companies) :
                \E j \in 1..Len(companies') : companies'[j] = companies[i] ]_vars

\* C12 amended (last write wins): after a Company import the store has, for
\* every key of the company_info directory, one Company row, with the field
\* values of the file just read, whatever values the row had before; the rows
\* of the other keys are as they were.
C12_LastWriteWins ==
    [][ CompanyImportStep =>
            /\ \A duns \in DOMAIN source.company_info :
                   SelectSeq(companies', LAMBDA c : c.duns = duns)
                       = << ReadCompanyInfo(NoInfo(duns), source.company_info[duns]) >>
            /\ \A duns \in Stems \ DOMAIN source.company_info :
                   SelectSeq(companies', LAMBDA c : c.duns = duns)
                       = SelectSeq(companies, LAMBDA c : c.duns = duns) ]_vars

\* C12 witness: the second run has imported, for a key the first run imported
\* too, a file with other values, and the Company row has the values of the
\* second file.
C12_Witness ==
    /\ pc = "balance_sheets"
    /\ Len(imported_info) = 2
    /\ \E duns \in DOMAIN imported_info[1] \cap DOMAIN imported_info[2] :
           LET old == ReadCompanyInfo(NoInfo(duns), imported_info[1][duns])
               new == ReadCompanyInfo(NoInfo(duns), imported_info[2][duns])
           IN  /\ old # new
               /\ \E i \in 1..Len(companies) : companies[i] = new
               /\ \A i \in 1..Len(companies) : companies[i] # old

\* A call of parse_numeric_value has returned.
Parsed == resp.op = "parse_numeric_value"

\* C13: parse_numeric_value maps "$43,079" to 43079.0, "($34,984)" to
\* -34984.0 and "12.5%" to 12.5, and maps the empty text, a text of whitespace
\* only and a lone "-", with or without whitespace around it, to null.
C13_NormalizeExamples ==
    Parsed =>
        /\ resp.value_str = <<"$", "4", "3", ",", "0", "7", "9">>
               => resp.out = Val([num |-> 43079, exp |-> 0])
        /\ resp.value_str = <<"(", "$", "3", "4", ",", "9", "8", "4", ")">>
               => resp.out = Val([num |-> 0 - 34984, exp |-> 0])
        /\ resp.value_str = <<"1", "2", ".", "5", "%">>
               => resp.out = Val([num |-> 125, exp |-> 1])
        /\ (\A i \in 1..Len(resp.value_str) : resp.value_str[i] \in Whitespace)
               => resp.out = NoVal
        /\ (\E i \in 1..Len(resp.value_str) :
                /\ resp.value_str[i] = "-"
                /\ \A j \in 1..Len(resp.value_str) :
                       j # i => resp.value_str[j] \in Whitespace)
               => resp.out = NoVal

\* C13 witness: the call with "($34,984)" has returned -34984.
C13_Witness ==
    /\ Parsed
    /\ resp.value_str = <<"(", "$", "3", "4", ",", "9", "8", "4", ")">>
    /\ resp.out = Val([num |-> 0 - 34984, exp |-> 0])

\* The value of pc at which the import step of a statement table is to run.
FinStage(t) ==
    CASE t = "balance_sheets" -> "balance_sheets"
      [] t = "cash_flow_statements" -> "cash_flows"
      [] OTHER -> "income_statements"

\* int(row.get('year', 0)) of a row of a statement file; NoVal when it raises.
YearOf(row) == IF row.year = MISSING THEN Val(0) ELSE PyInt(row.year)

\* C14: every stored statement row has the value text of a row of the source
\* file of its key, character for character, and the numeric value that
\* parse_numeric_value gives for that text (null when the text gives no
\* number); and an import step stores a row for every row of an accepted file
\* whose year is an integer, whether or not its value text gives a number.
C14_ValueKeptAndNormalized ==
    /\ [](\A t \in FinTables : \A i \in 1..Len(FinTable(t)) :
            LET r == FinTable(t)[i]
                dir == source[DepDir(t)]
            IN  /\ r.numeric_value = parse_numeric_value(r.value)
                /\ r.duns \in DOMAIN dir
                /\ \E n \in 1..Len(dir[r.duns]) :
                       /\ r.value = Get(dir[r.duns][n], "value", <<>>)
                       /\ r.line_item = Get(dir[r.duns][n], "line_item", <<>>))
    /\ [][ \A t \in FinTables :
               pc = FinStage(t) =>
                   \A duns \in valid_duns \cap DOMAIN source[DepDir(t)] :
                       \A n \in 1..Len(source[DepDir(t)][duns]) :
                           LET row == source[DepDir(t)][duns][n]
                           IN  YearOf(row) # NoVal =>
                                   \E j \in (Len(FinTable(t)) + 1)..Len(FinTable(t)') :
                                       /\ FinTable(t)'[j].duns = duns
                                       /\ FinTable(t)'[j].value = Get(row, "value", <<>>)
                                       /\ FinTable(t)'[j].line_item
                                              = Get(row, "line_item", <<>>)
                                       /\ FinTable(t)'[j].numeric_value
                                              = parse_numeric_value(Get(row, "value", <<>>))
         ]_vars

\* C14 witness: a statement table has a row with the text "-" and no numeric
\* value, and a row with the text "(5)" and the numeric value -5.
C14_Witness ==
    \E t \in FinTables :
        /\ \E i \in 1..Len(FinTable(t)) :
               FinTable(t)[i].value = <<"-">> /\ FinTable(t)[i].numeric_value = NoVal
        /\ \E i \in 1..Len(FinTable(t)) :
               /\ FinTable(t)[i].value = <<"(", "5", ")">>
               /\ FinTable(t)[i].numeric_value = Val([num |-> 0 - 5, exp |-> 0])

\* The source rows a stored statement row can come from: the rows of the file
\* of its key with its line item and value text.
OriginsOf(t, r) ==
    LET dir == source[DepDir(t)]
    IN  IF r.duns \notin DOMAIN dir THEN {}
        ELSE {dir[r.duns][n] : n \in
                 {m \in 1..Len(dir[r.duns]) :
                     /\ Get(dir[r.duns][m], "line_item", <<>>) = r.line_item
                     /\ Get(dir[r.duns][m], "value", <<>>) = r.value}}

\* The rows a step has added to a statement table for a key.
AddedFor(t, duns) ==
    {j \in (Len(FinTable(t)) + 1)..Len(FinTable(t)') : FinTable(t)'[j].duns = duns}

\* C15 as stated: a statement row is stored only if its year field is the text
\* of an integer, and then with that integer as its fiscal year.
C15_StoredOnlyWithYearField ==
    \A t \in FinTables : \A i \in 1..Len(FinTable(t)) :
        \E row \in OriginsOf(t, FinTable(t)[i]) :
            /\ row.year # MISSING
            /\ PyInt(row.year) = Val(FinTable(t)[i].year)

\* C15 amended: a statement row is stored only if its year field is the text
\* of an integer, and then with that integer as its fiscal year, or if its
\* file has no year column, and then with the fiscal year 0; a row whose year
\* field is no integer is skipped and the other rows of the file are stored
\* all the same: a step adds, for every accepted file, as many rows as the
\* file has rows with a fiscal year.
C15_YearParsedOrDefault ==
    /\ [](\A t \in FinTables : \A i \in 1..Len(FinTable(t)) :
            \E row \in OriginsOf(t, FinTable(t)[i]) :
                IF row.year = MISSING THEN FinTable(t)[i].year = 0
                ELSE PyInt(row.year) = Val(FinTable(t)[i].year))
    /\ [][ \A t \in FinTables :
               pc = FinStage(t) =>
                   \A duns \in valid_duns \cap DOMAIN source[DepDir(t)] :
                       Cardinality(AddedFor(t, duns)) =
                           Cardinality({n \in 1..Len(source[DepDir(t)][duns]) :
                               LET row == source[DepDir(t)][duns][n]
                               IN  row.year = MISSING \/ PyInt(row.year) # NoVal})
         ]_vars

\* C15 witness: the statement file with a row whose year is "x" and a short
\* row has been imported: the table has its three other rows, the rows of
\* year 24 and of year 0 after the skipped ones among them.
C15_Witness ==
    \E t \in FinTables :
        /\ Len(FinTable(t)) = 3
        /\ FinTable(t)[2].year = 24
        /\ FinTable(t)[3].year = 0
        /\ FinTable(t)[3].value = <<"1", ".", "5", "%">>
        /\ source[DepDir(t)][FinTable(t)[1].duns] = FinFile

\* C16: no operation of the query service changes the store: over every step
\* of the service (every operation with every parameter combination, the
\* requests answered 404 and 422 included) each of the seven tables is after
\* the step what it was before.
C16_QueriesLeaveStore ==
    [][/\ companies' = companies
       /\ balance_sheets' = balance_sheets
       /\ cash_flow_statements' = cash_flow_statements
       /\ income_statements' = income_statements
       /\ industries' = industries
       /\ operations' = operations
       /\ people' = people]_vars

\* A request for the people of a missing company has been answered 404 over a
\* store that holds Company rows and Person rows.
C16_Witness ==
    /\ resp.op = "get_company_people"
    /\ resp.out.status = 404
    /\ companies # <<>>
    /\ people # <<>>

\* C17: a request whose pagination parameter is out of range (page < 1 or
\* page_size outside 1..100 for list_companies, list_people and
\* get_company_people; limit outside 1..1000 or offset < 0 for the three flat
\* statement listings) is answered with the invalid-parameter error whatever
\* the store holds and whatever the other parameters are (for
\* get_company_people also when the company is missing: the parameters are
\* rejected before the store is looked at) and never with a listing.
C17_OutOfRangeRejected ==
    /\ \A pg \in PageRequests \ ValidPages :
          /\ \A code \in ReqCodes, type \in ReqTypes, search \in ReqSearches :
                list_companies(pg[1], pg[2], code, type, search) = Invalid
          /\ \A title \in ReqTitles, name \in ReqNames, r \in ReqResponsibilities :
                list_people(pg[1], pg[2], title, name, r) = Invalid
          /\ \A duns \in ReqDuns : get_company_people(duns, pg[1], pg[2]) = Invalid
    /\ \A w \in WindowRequests \ ValidWindows, t \in FinTables :
          \A year \in ReqYears, line_item \in ReqLineItems :
              FlatListing(t, year, line_item, w[1], w[2]) = Invalid
    /\ resp # NoResponse /\ resp.out.status = 200 =>
          /\ "page" \in DOMAIN resp.out =>
                <<resp.out.page, resp.out.page_size>> \in ValidPages
          /\ "records" \in DOMAIN resp.out /\ "year" \in DOMAIN resp.out =>
                Len(resp.out.records) <= LIMIT_MAX

\* A flat listing of a table that holds rows has been asked for with a limit
\* above 1000 and was rejected.
C17_Witness ==
    /\ resp.op = "list_income_statements"
    /\ resp.out = Invalid
    /\ income_statements # <<>>

\* The classification codes of the store that are neither NULL nor ''.
StoredCodes ==
    {industries[i].industry_code : i \in 1..Len(industries)} \ {NULL, <<>>}

\* The companies with at least one Industry row of the code.
CompaniesOfCode(code) ==
    {industries[i].duns : i \in {j \in 1..Len(industries) : industries[j].industry_code = code}}

\* C18: list_industry_codes returns each distinct non-null, non-empty
\* classification code exactly once, with company_count the number of distinct
\* companies that have an Industry row with the code, in non-increasing order
\* of company_count, and total the number of distinct codes.
C18_CodesOncePerCode ==
    \A results \in CodeResults :
        LET out == list_industry_codes(results)
        IN  /\ out.status = 200
            /\ {out.codes[i].code : i \in 1..Len(out.codes)} = StoredCodes
            /\ \A i, j \in 1..Len(out.codes) :
                    out.codes[i].code = out.codes[j].code => i = j
            /\ \A i \in 1..Len(out.codes) :
                    out.codes[i].company_count =
                        Cardinality(CompaniesOfCode(out.codes[i].code))
            /\ \A i \in 1..(Len(out.codes) - 1) :
                    out.codes[i].company_count >= out.codes[i + 1].company_count
            /\ out.total = Cardinality(StoredCodes)

\* The pieces of a text between its commas, as <<first, last>> positions (an
\* empty piece has last = first - 1).
Pieces(s) ==
    {p \in (1..(Len(s) + 1)) \X (0..Len(s)) :
        /\ p[2] >= p[1] - 1
        /\ p[1] = 1 \/ s[p[1] - 1] = ","
        /\ p[2] = Len(s) \/ s[p[2] + 1] = ","
        /\ \A k \in p[1]..p[2] : s[k] # ","}

\* tag is what is left of piece when the whitespace around it is taken away,
\* and something is left.
IsTagOf(tag, piece) ==
    /\ tag # <<>>
    /\ tag[1] \notin Whitespace
    /\ tag[Len(tag)] \notin Whitespace
    /\ \E i \in 0..(Len(piece) - Len(tag)) :
          /\ SubSeq(piece, i + 1, i + Len(tag)) = tag
          /\ \A k \in 1..i : piece[k] \in Whitespace
          /\ \A k \in (i + Len(tag) + 1)..Len(piece) : piece[k] \in Whitespace

\* The pieces of the responsibilities text of Person row i that are the tag.
TagPieces(i, tag) ==
    IF people[i].responsibilities = NULL THEN {}
    ELSE LET s == people[i].responsibilities
         IN  {p \in Pieces(s) : IsTagOf(tag, SubSeq(s, p[1], p[2]))}

\* The texts that are part of a stored responsibilities text.
SubTexts ==
    UNION {IF people[i].responsibilities = NULL THEN {}
           ELSE LET s == people[i].responsibilities
                IN  {SubSeq(s, a, b) : a \in 1..Len(s), b \in 1..Len(s)} :
           i \in 1..Len(people)}

RECURSIVE Occurrences(_, _)
\* The number of occurrences of the tag in the first n Person rows.
Occurrences(tag, n) ==
    IF n = 0 THEN 0 ELSE Occurrences(tag, n - 1) + Cardinality(TagPieces(n, tag))

AllTags == {t \in SubTexts : Occurrences(t, Len(people)) > 0}

\* C19: list_responsibilities splits the responsibilities text of every Person
\* row at its commas, trims each piece and discards the empty ones, and reports
\* each distinct tag exactly once with the number of its occurrences over all
\* Person rows; total is the number of distinct tags.
C19_TagsCounted ==
    Quiet =>
        LET out == list_responsibilities
            n == Len(out.responsibilities)
        IN  /\ out.status = 200
            /\ {out.responsibilities[i].responsibility : i \in 1..n} = AllTags
            /\ \A i, j \in 1..n :
                    out.responsibilities[i].responsibility =
                        out.responsibilities[j].responsibility => i = j
            /\ \A i \in 1..n :
                    out.responsibilities[i].count =
                        Occurrences(out.responsibilities[i].responsibility, Len(people))
            /\ out.total = Cardinality(AllTags)

\* The tags have been listed over a store in which a text has a piece with
\* whitespace around the tag and an empty piece, a row has no text, and a tag
\* occurs in more than one row.
C19_Witness ==
    /\ resp.op = "list_responsibilities"
    /\ resp.out.total = 2
    /\ \E i \in 1..2 : resp.out.responsibilities[i].count > 2
    /\ \E i \in 1..Len(people) : people[i].responsibilities = NULL
    /\ \E i \in 1..Len(people) :
          /\ people[i].responsibilities # NULL
          /\ \E p \in Pieces(people[i].responsibilities) :
                \A k \in p[1]..p[2] : people[i].responsibilities[k] \in Whitespace

LineItemListing(t) ==
    CASE t = "balance_sheets" -> list_balance_sheet_line_items
      [] t = "cash_flow_statements" -> list_cash_flow_line_items
      [] OTHER -> list_income_statement_line_items

YearListing(t) ==
    CASE t = "balance_sheets" -> list_balance_sheet_years
      [] t = "cash_flow_statements" -> list_cash_flow_years
      [] OTHER -> list_income_statement_years

\* C20: for each statement type, the unique-line-items operation returns every
\* distinct line item of the table exactly once, in ascending order, each with
\* record_count the number of records that carry it, and the unique-years
\* operation returns every distinct fiscal year of the table exactly once, in
\* descending order.
C20_UniqueLineItemsAndYears ==
    Quiet =>
        \A t \in FinTables :
            LET rows == FinTable(t)
                items == LineItemListing(t).line_items
                years == YearListing(t).years
            IN  /\ LineItemListing(t).status = 200
                /\ {items[i].line_item : i \in 1..Len(items)} =
                       {rows[k].line_item : k \in 1..Len(rows)}
                /\ \A i \in 1..(Len(items) - 1) :
                       /\ items[i].line_item # items[i + 1].line_item
                       /\ TextLeq(items[i].line_item, items[i + 1].line_item)
                /\ \A i \in 1..Len(items) :
                       items[i].record_count =
                           Cardinality({k \in 1..Len(rows) :
                                           rows[k].line_item = items[i].line_item})
                /\ YearListing(t).status = 200
                /\ {years[i] : i \in 1..Len(years)} = {rows[k].year : k \in 1..Len(rows)}
                /\ \A i \in 1..(Len(years) - 1) : years[i] > years[i + 1]

\* The line items of the cash-flow table have been listed: more than one line
\* item, one carried by several records, and records of two fiscal years.
C20_Witness ==
    /\ resp.op = "list_cash_flow_line_items"
    /\ Len(resp.out.line_items) >= 2
    /\ \E i \in 1..Len(resp.out.line_items) : resp.out.line_items[i].record_count >= 2
    /\ Len(list_cash_flow_years.years) = 2

\* The job titles of the store: the titles of the Person rows that are neither
\* NULL nor ''.
JobTitles == {people[i].title : i \in 1..Len(people)} \ {NULL, <<>>}

\* C21: list_titles returns each distinct job title exactly once, with a count
\* equal to the number of Person rows that have the title, in non-increasing
\* order of count.
C21_TitlesCounted ==
    Quiet =>
        \A results \in TitleResults :
            LET out == list_titles(results)
                n == Len(out.titles)
            IN  /\ out.status = 200
                /\ {out.titles[i].title : i \in 1..n} = JobTitles
                /\ \A i, j \in 1..n : out.titles[i].title = out.titles[j].title => i = j
                /\ \A i \in 1..n :
                       out.titles[i].count =
                           Cardinality({k \in 1..Len(people) :
                                           people[k].title = out.titles[i].title})
                /\ \A i \in 1..(n - 1) : out.titles[i].count >= out.titles[i + 1].count

\* The titles have been listed over a store with two job titles of different
\* counts.
C21_Witness ==
    /\ resp.op = "list_titles"
    /\ Len(resp.out.titles) = 2
    /\ resp.out.titles[1].count > resp.out.titles[2].count

\* The column of the Company row that a field name of a company_info file fills.
CompanyFields ==
    [physical_address |-> "Physical Address", telephone_number |-> "Telephone Number",
     acn |-> "ACN", company_type |-> "Company Type", primary_sic |-> "Primary SIC"]

\* What a company_info file supplies for a field name: the value cell of the
\* last row with the field name, without the whitespace around it; NULL when no
\* row has the field name.
Supplied(rows, name) ==
    LET at == {i \in 1..Len(rows) : rows[i].field = name}
    IN  IF at = {} THEN NULL
        ELSE Strip(rows[CHOOSE i \in at : \A j \in at : j <= i].value)

\* The company_info directory the latest run has read.
LatestInfo == imported_info[Len(imported_info)]

\* C22: a Company import merge-overwrites: once a run has imported the
\* company_info directory, the store has for each key of the directory exactly
\* one Company row, and each of its fields is what the latest file of the key
\* supplies, null for a field the file does not supply, whatever an earlier run
\* had stored.
C22_MergeOverwrites ==
    imported_info # <<>> =>
        \A duns \in DOMAIN LatestInfo :
            /\ Cardinality({i \in 1..Len(companies) : companies[i].duns = duns}) = 1
            /\ \A i \in 1..Len(companies) :
                   companies[i].duns = duns =>
                       \A f \in DOMAIN CompanyFields :
                           companies[i][f] = Supplied(LatestInfo[duns], CompanyFields[f])

\* The second run has read, for a key whose file of the first run supplied the
\* address, a file that does not supply it, and the stored address is null.
C22_Witness ==
    /\ Len(imported_info) = 2
    /\ \E duns \in DOMAIN imported_info[1] \cap DOMAIN imported_info[2] :
          /\ Supplied(imported_info[1][duns], "Physical Address") # NULL
          /\ Supplied(imported_info[2][duns], "Physical Address") = NULL
          /\ \E i \in 1..Len(companies) :
                companies[i].duns = duns /\ companies[i].physical_address = NULL

\* C23: for a text without "%" (and without apostrophe, which only the quote
\* step looks at), parse_numeric_value removes every "$", ",", "(", ")" and
\* double quote, parses what is left as a decimal number, and negates the number
\* exactly when the text has both a "(" and a ")" somewhere; what is left being
\* empty or no number gives null.  "-(5)" gives 5.
C23_ParenthesisNegative ==
    (Parsed /\ ~Contains(resp.value_str, "%") /\ ~Contains(resp.value_str, "'")) =>
        LET residue == SelectSeq(resp.value_str,
                                 LAMBDA c : c \notin {"$", ",", "(", ")", "\""})
            number == PyFloat(residue)
            negative == Contains(resp.value_str, "(") /\ Contains(resp.value_str, ")")
        IN  /\ number = NoVal => resp.out = NoVal
            /\ number # NoVal /\ negative =>
                   resp.out = Val(Dec(0 - number[1].num, number[1].exp))
            /\ number # NoVal /\ ~negative => resp.out = number
            /\ resp.value_str = <<"-", "(", "5", ")">> =>
                   resp.out = Val([num |-> 5, exp |-> 0])

\* "-(5)" has been parsed to a number.
C23_Witness ==
    /\ Parsed
    /\ resp.value_str = <<"-", "(", "5", ")">>
    /\ resp.out # NoVal

\* The straight quote characters.
StraightQuotes == {"\"", "'"}

\* The text, without the whitespace around it, starts or ends with a straight
\* quote character.
QuoteAtEnd(t) ==
    LET u == Strip(t)
    IN  u # <<>> /\ (u[1] \in StraightQuotes \/ u[Len(u)] \in StraightQuotes)

\* C24: for a text with a "%" (and no quote character at its ends, which the
\* quote step takes away first), parse_numeric_value removes every "%" and
\* every "," and returns what is left parsed as a decimal number, not divided
\* by 100; what is left not being a number (as when it has a "$" or a
\* parenthesis) gives null, and a value in parentheses is not negated.
C24_Percentage ==
    (Parsed /\ Contains(resp.value_str, "%") /\ ~QuoteAtEnd(resp.value_str)) =>
        LET remainder == SelectSeq(resp.value_str, LAMBDA c : c \notin {"%", ","})
        IN  /\ resp.out = PyFloat(remainder)
            /\ (\E c \in {"$", "(", ")"} : Contains(resp.value_str, c)) => resp.out = NoVal
            /\ resp.value_str = <<"5", "%">> => resp.out = Val([num |-> 5, exp |-> 0])
            /\ resp.value_str = <<"1", "2", ".", "5", "%">>
                   => resp.out = Val([num |-> 125, exp |-> 1])

\* "5%" has been parsed to 5.
C24_Witness ==
    /\ Parsed
    /\ resp.value_str = <<"5", "%">>
    /\ resp.out = Val([num |-> 5, exp |-> 0])

\* What parse_numeric_value makes of a text once the quote step is done
\* (percentage: "%" and "," removed and parsed; otherwise "$", ",", "(", ")"
\* and double quotes removed, parsed, negated when both parentheses occur).
Inspected(v) ==
    IF v = <<>> \/ v = <<"-">> THEN NoVal
    ELSE IF Contains(v, "%")
    THEN PyFloat(SelectSeq(v, LAMBDA c : c \notin {"%", ","}))
    ELSE LET number ==
                 PyFloat(SelectSeq(v, LAMBDA c : c \notin {"$", ",", "(", ")", "\""}))
         IN  IF number = NoVal THEN NoVal
             ELSE IF Contains(v, "(") /\ Contains(v, ")")
             THEN Val(Dec(0 - number[1].num, number[1].exp))
             ELSE number

\* The quote characters, straight and curly.
QuoteChars == StraightQuotes \cup {LeftCurly, RightCurly}

\* The text, without the whitespace around it, has a quote character at both
\* ends.
Wrapped(t) ==
    LET u == Strip(t)
    IN  Len(u) >= 2 /\ u[1] \in QuoteChars /\ u[Len(u)] \in QuoteChars

\* C25 as stated (one layer, straight or curly): the result for a text in
\* quotes is the result for the text without its first and its last character,
\* the inner layer of a text in two layers being kept.
C25_SingleLayerAnyQuote ==
    (Parsed /\ Wrapped(resp.value_str)) =>
        LET u == Strip(resp.value_str)
        IN  resp.out = Inspected(SubSeq(u, 2, Len(u) - 1))

\* u from its first character that is not in cs to its last that is not in cs.
Bare(u, cs) ==
    LET keep == {i \in 1..Len(u) : u[i] \notin cs}
    IN  IF keep = {} THEN <<>>
        ELSE SubSeq(u, CHOOSE i \in keep : \A j \in keep : i <= j,
                       CHOOSE i \in keep : \A j \in keep : j <= i)

\* C25 amended (every layer, straight quotes only): the result for a text is
\* the result for the text without the whitespace around it, then without
\* every double quote at its ends, then without every apostrophe at its ends;
\* curly quotes stay, and a text in curly quotes gives null.
C25_StraightQuotesStripped ==
    Parsed =>
        LET u == Strip(resp.value_str)
        IN  /\ resp.out = Inspected(Bare(Bare(u, {"\""}), {"'"}))
            /\ (u # <<>> /\ (u[1] = LeftCurly \/ u[Len(u)] = RightCurly))
                   => resp.out = NoVal

\* A value in two layers of apostrophes has been parsed to the number.
C25_Witness ==
    /\ Parsed
    /\ resp.value_str = <<"'", "'", "5", "'", "'">>
    /\ resp.out = Val([num |-> 5, exp |-> 0])

\* The step in which a listing makes its second read and builds the response.
FetchStep == "step" \in DOMAIN resp /\ "out" \in DOMAIN resp'

\* The rows of the listed table that match the filter of the pending request.
MatchingNow ==
    IF resp.op = "list_people"
    THEN Cardinality({i \in 1..Len(people) :
                         PersonMatches(people[i], resp.title, NULL, NULL)})
    ELSE Cardinality({i \in 1..Len(balance_sheets) :
                         FinMatches(balance_sheets[i], NoVal, resp.line_item)})

\* The items of a listing response.
ItemsOf(r) == IF r.op = "list_people" THEN r.out.people ELSE r.out.records

\* The listed table of the pending request.
ListedTable == IF resp.op = "list_people" THEN people ELSE balance_sheets

StepTable ==
    CASE pc = "cash_flows" -> "cash_flow_statements"
      [] OTHER -> pc

\* The records a run makes of the file of a key in the directory of a table.
RecordsOfFile(t, duns) ==
    LET rows == source[DepDir(t)][duns]
    IN  CASE t \in FinTables -> FinRecords(duns, rows)
          [] t = "industries" -> IndustryRecords(duns, rows)
          [] t = "operations" -> OperationRecords(duns, rows)
          [] OTHER -> PersonRecords(duns, rows)

\* C27: the key set of a run is the set of file stems of the company_info
\* directory the run has read, not the set of Company keys of the store.  A
\* dependent import step adds for a key the records of the key's file when the
\* key is in that set, and nothing when it is not, also when a Company row of
\* the key is in the store from an earlier run; no step takes a Company row or
\* a dependent row out of the store, and the per-company listings of a key
\* with a Company row show the dependent rows of the key.
C27_KeySetOfTheRun ==
    /\ [](pc # "idle" => valid_duns = DOMAIN LatestInfo)
    /\ [](\A duns \in Stems :
            HasCompany(duns) =>
                /\ get_company_people(duns, 1, PAGE_SIZE_MAX).people = RowsOf(duns).people
                /\ get_company_industries(duns).industries = RowsOf(duns).industries
                /\ get_company_operations(duns).operations = RowsOf(duns).operations
                /\ \A t \in FinTables :
                       CompanyListing(t, duns, NoVal, NULL).total = Len(RowsOf(duns)[t]))
    /\ [][ \A duns \in Stems :
              /\ HasCompany(duns) => HasCompany(duns)'
              /\ pc # "idle" =>
                     \A t \in DepTables :
                         LET added ==
                                 IF /\ t = StepTable
                                    /\ duns \in DOMAIN LatestInfo
                                    /\ duns \in DOMAIN source[DepDir(t)]
                                 THEN RecordsOfFile(t, duns)
                                 ELSE <<>>
                         IN  /\ Len(RowsOf(duns)[t]') = Len(RowsOf(duns)[t]) + Len(added)
                             /\ SubSeq(RowsOf(duns)[t]', 1, Len(RowsOf(duns)[t]))
                                    = RowsOf(duns)[t]
                             /\ \A i \in 1..Len(added) :
                                    StripId(RowsOf(duns)[t]'[Len(RowsOf(duns)[t]) + i])
                                        = added[i] ]_vars

\* The second run is over; its company_info directory lacked a key that the
\* first run's had; the Company row of the key is in the store, the source has
\* a dependent file of the key, and the store has the rows of that file once.
C27_Witness ==
    /\ pc = "idle"
    /\ Len(imported_info) = 2
    /\ \E duns \in DOMAIN imported_info[1] \ DOMAIN imported_info[2] :
          /\ HasCompany(duns)
          /\ \E t \in DepTables :
                /\ duns \in DOMAIN source[DepDir(t)]
                /\ RecordsOfFile(t, duns) # <<>>
                /\ Len(RowsOf(duns)[t]) = Len(RecordsOfFile(t, duns))

\* The number of pages of size that n items fill: ceil(n / size).
PageCount(n, size) == (n + size - 1) \div size

\* The pages Page(1) .. Page(n) are without repeats, pairwise disjoint, and
\* hold together the items of matching, each once.
Partition(Page(_), n, matching) ==
    /\ \A p \in 1..n : Cardinality(Range(Page(p))) = Len(Page(p))
    /\ \A p, q \in 1..n : p # q => Range(Page(p)) \cap Range(Page(q)) = {}
    /\ UNION {Range(Page(p)) : p \in 1..n} = matching

\* C28: for a store and filters, the pages 1 .. ceil(total / page_size) of
\* list_companies, of list_people and of get_company_people are pairwise
\* disjoint and hold together every matching item exactly once, and so do the
\* consecutive windows (offset 0, limit, 2 * limit, ...) of the flat statement
\* listings.
C28_PagesPartition ==
    Quiet =>
        \A size \in 1..MaxPageSize :
            /\ \A industry_code \in ReqCodes, company_type \in ReqTypes,
                  search \in ReqSearches :
                   LET Page(p) == list_companies(p, size, industry_code, company_type,
                                                 search).companies
                       total == list_companies(1, size, industry_code, company_type,
                                               search).total
                   IN  Partition(Page, PageCount(total, size),
                                 {c \in Range(companies) :
                                     CompanyMatches(c, industry_code, company_type, search)})
            /\ \A title \in ReqTitles, name \in ReqNames,
                  responsibilities \in ReqResponsibilities :
                   LET Page(p) == list_people(p, size, title, name, responsibilities).people
                       total == list_people(1, size, title, name, responsibilities).total
                   IN  Partition(Page, PageCount(total, size),
                                 {r \in Range(people) :
                                     PersonMatches(r, title, name, responsibilities)})
            /\ \A duns \in {d \in ReqDuns : HasCompany(d)} :
                   LET Page(p) == get_company_people(duns, p, size).people
                       total == get_company_people(duns, 1, size).total
                   IN  Partition(Page, PageCount(total, size),
                                 {r \in Range(people) : r.duns = duns})
            /\ \A t \in FinTables, year \in ReqYears, line_item \in ReqLineItems :
                   LET Page(p) == FlatListing(t, year, line_item, size,
                                              (p - 1) * size).records
                       total == FlatListing(t, year, line_item, size, 0).total
                   IN  Partition(Page, PageCount(total, size),
                                 {r \in Range(FinTable(t)) : FinMatches(r, year, line_item)})

\* The search texts of C29: those of the requests, and the text "_".
SearchTexts == ReqSearches \cup {<<"_">>}

\* C29: list_companies with a search text returns the companies of which the
\* text is a case-insensitive substring of physical_address or of primary_sic
\* (one of the two is enough, so a company without address can match by its
\* primary_sic), and that also pass the company_type and industry_code
\* filters when these are supplied.
C29_SearchEitherField ==
    Quiet =>
        \A industry_code \in ReqCodes, company_type \in ReqTypes,
           search \in SearchTexts \ {NULL} :
            LET out == list_companies(1, PAGE_SIZE_MAX, industry_code, company_type, search)
            IN  /\ out.status = 200
                /\ Range(out.companies) =
                       {c \in Range(companies) :
                           /\ \/ ContainsCI(c.physical_address, search)
                              \/ ContainsCI(c.primary_sic, search)
                           /\ industry_code # NULL => HasIndustry(c.duns, industry_code)
                           /\ company_type # NULL => ContainsCI(c.company_type, company_type)}

\* C30: in the response of list_titles, total is the number of entries of the
\* titles list, in every store, also one with Person rows whose title is null
\* or empty.
C30_TitlesTotal ==
    Quiet =>
        \A results \in TitleResults :
            list_titles(results).total = Len(list_titles(results).titles)
====
